---------------------------- MODULE Spec2Model ----------------------------
(***************************************************************************)
(* A model of the A2S query engine of opengsq-node (class Source and its   *)
(* BufferReader).  A buffer is a sequence of octets (0..255); the source's *)
(* offsets are 0-based, so octet k of a buffer b is b[k + 1].  A string is *)
(* the sequence of its code points.                                        *)
(***************************************************************************)
EXTENDS Integers, Sequences, FiniteSets, TLC

(***************************************************************************)
(* Octet buffers (Node's Buffer) and the BufferReader primitives.          *)
(***************************************************************************)

\* Buffer.subarray(start, end): clamps to the buffer, never throws.
SubArray(buf, start, end) ==
    LET e == IF end > Len(buf) THEN Len(buf) ELSE end
    IN  IF start >= e THEN << >> ELSE SubSeq(buf, start + 1, e)

\* Buffer.subarray(start): from start to the end of the buffer.
SubArrayFrom(buf, start) == SubArray(buf, start, Len(buf))

\* Buffer.readUInt8 & co. throw unless the whole field lies inside the buffer.
CanRead(buf, off, n) == off >= 0 /\ off + n <= Len(buf)

\* The code of the error they throw (Node's boundsError): a buffer shorter than
\* the field is ERR_BUFFER_OUT_OF_BOUNDS, an offset too far in a buffer that
\* could hold the field is ERR_OUT_OF_RANGE.
ErrOutOfRange == "ERR_OUT_OF_RANGE"
ErrBufferOutOfBounds == "ERR_BUFFER_OUT_OF_BOUNDS"
ReadError(buf, n) == IF Len(buf) < n THEN ErrBufferOutOfBounds ELSE ErrOutOfRange

ReadUInt8(buf, off) == buf[off + 1]

\* readInt8: two's complement of one octet.
ReadInt8(buf, off) == IF buf[off + 1] >= 128 THEN buf[off + 1] - 256 ELSE buf[off + 1]

ReadUInt16LE(buf, off) == buf[off + 1] + 256 * buf[off + 2]

\* An unsigned 32-bit value v, kept as its two 16-bit halves: v = hi * 65536 + lo.
UInt32(hi, lo) == [hi |-> hi, lo |-> lo]

\* The unsigned 32-bit value of a small natural number.
UInt32Of(n) == UInt32(n \div 65536, n % 65536)

\* readUInt32LE: any value of 0 .. 2^32 - 1.
ReadUInt32LE(buf, off) ==
    UInt32(buf[off + 3] + 256 * buf[off + 4], buf[off + 1] + 256 * buf[off + 2])

\* readInt32LE: two's complement, 32 bits wide.
ReadInt32LE(buf, off) ==
    LET top == IF buf[off + 4] >= 128 THEN buf[off + 4] - 256 ELSE buf[off + 4]
    IN  buf[off + 1] + 256 * buf[off + 2] + 65536 * buf[off + 3] + 16777216 * top

\* readFloatLE: the model keeps the IEEE-754 bit pattern (the four octets) and
\* never interprets it.
ReadFloatBits(buf, off) == SubSeq(buf, off + 1, off + 4)

\* readBigUInt64LE: kept as its eight octets, least significant first.
ReadBigUInt64Octets(buf, off) == SubSeq(buf, off + 1, off + 8)

\* Buffer.toString('utf-8'): the UTF-8 decoding of the octets, as the sequence
\* of the code points of the string.  An octet that cannot begin a sequence,
\* and each maximal prefix of a sequence that is cut short or continues with
\* an octet out of range, decodes to U+FFFD.  need is the number of
\* continuation octets still missing, cp the bits gathered so far and
\* [lower, upper] the range of the next continuation octet (it is narrower
\* after E0, ED, F0 and F4, which rules out overlong forms, surrogates and
\* code points above U+10FFFF).
ReplacementCharacter == 65533

RECURSIVE Utf8Decode(_, _, _, _, _, _, _)
Utf8Decode(buf, k, need, cp, lower, upper, out) ==
    IF k > Len(buf)
    THEN IF need > 0 THEN Append(out, ReplacementCharacter) ELSE out
    ELSE IF need = 0
    THEN IF buf[k] <= 127
         THEN Utf8Decode(buf, k + 1, 0, 0, 128, 191, Append(out, buf[k]))
         ELSE IF buf[k] >= 194 /\ buf[k] <= 223
         THEN Utf8Decode(buf, k + 1, 1, buf[k] % 32, 128, 191, out)
         ELSE IF buf[k] >= 224 /\ buf[k] <= 239
         THEN Utf8Decode(buf, k + 1, 2, buf[k] % 16,
                         IF buf[k] = 224 THEN 160 ELSE 128,
                         IF buf[k] = 237 THEN 159 ELSE 191, out)
         ELSE IF buf[k] >= 240 /\ buf[k] <= 244
         THEN Utf8Decode(buf, k + 1, 3, buf[k] % 8,
                         IF buf[k] = 240 THEN 144 ELSE 128,
                         IF buf[k] = 244 THEN 143 ELSE 191, out)
         ELSE Utf8Decode(buf, k + 1, 0, 0, 128, 191, Append(out, ReplacementCharacter))
    ELSE IF buf[k] < lower \/ buf[k] > upper
    THEN Utf8Decode(buf, k, 0, 0, 128, 191, Append(out, ReplacementCharacter))
    ELSE IF need = 1
    THEN Utf8Decode(buf, k + 1, 0, 0, 128, 191, Append(out, cp * 64 + (buf[k] % 64)))
    ELSE Utf8Decode(buf, k + 1, need - 1, cp * 64 + (buf[k] % 64), 128, 191, out)

ToStringUtf8(buf) == Utf8Decode(buf, 1, 0, 0, 128, 191, << >>)

\* readString: scan to the first zero octet or the end of the buffer, step
\* over the terminator and decode the octets scanned.  Never throws.
RECURSIVE StringEnd(_, _)
StringEnd(buf, off) ==
    IF off < Len(buf) /\ buf[off + 1] # 0 THEN StringEnd(buf, off + 1) ELSE off

ReadString(buf, off) ==
    LET end == StringEnd(buf, off)
    IN  [str |-> ToStringUtf8(SubArray(buf, off, end)), off |-> end + 1]

(***************************************************************************)
(* crc-32 (crc32.buf): the reflected CRC-32, polynomial 0xEDB88320,        *)
(* computed with the byte table on two 16-bit halves; the result is the    *)
(* signed 32-bit integer crc32.buf returns.  The running value of a loop   *)
(* is bound by a set constructor, so that it is computed once per step.    *)
(***************************************************************************)
NibbleXor ==
    [x \in 0..15 |-> [y \in 0..15 |->
        ((x + y) % 2)
        + 2 * (((x \div 2) + (y \div 2)) % 2)
        + 4 * (((x \div 4) + (y \div 4)) % 2)
        + 8 * (((x \div 8) + (y \div 8)) % 2)]]

\* Bitwise exclusive or of two 16-bit values.
Xor(a, b) ==
    NibbleXor[a % 16][b % 16]
    + 16 * NibbleXor[(a \div 16) % 16][(b \div 16) % 16]
    + 256 * NibbleXor[(a \div 256) % 16][(b \div 256) % 16]
    + 4096 * NibbleXor[(a \div 4096) % 16][(b \div 4096) % 16]

\* One bit of the division: shift right, and subtract the polynomial
\* (0xEDB8 8320) when the bit shifted out was set.
CrcShift(c) ==
    LET lo == (c.lo \div 2) + (c.hi % 2) * 32768
        hi == c.hi \div 2
    IN  IF c.lo % 2 = 1
        THEN [hi |-> Xor(hi, 60856), lo |-> Xor(lo, 33568)]
        ELSE [hi |-> hi, lo |-> lo]

RECURSIVE CrcBits(_, _)
CrcBits(c, n) ==
    IF n = 0 THEN c
    ELSE CHOOSE r \in {CrcBits(d, n - 1) : d \in {CrcShift(c)}} : TRUE

\* The library's 256-entry table.
CrcTable == [b \in 0..255 |-> CrcBits([hi |-> 0, lo |-> b], 8)]

\* One octet: crc = (crc >>> 8) ^ table[(crc ^ octet) & 0xFF].
CrcByte(c, octet) ==
    LET e == CrcTable[Xor(c.lo % 256, octet)]
    IN  [hi |-> Xor(c.hi \div 256, e.hi),
         lo |-> Xor((c.lo \div 256) + (c.hi % 256) * 256, e.lo)]

RECURSIVE CrcBytes(_, _, _)
CrcBytes(c, buf, k) ==
    IF k > Len(buf) THEN c
    ELSE CHOOSE r \in {CrcBytes(d, buf, k + 1) : d \in {CrcByte(c, buf[k])}} : TRUE

Crc32Buf(buf) ==
    LET c  == CrcBytes([hi |-> 65535, lo |-> 65535], buf, 1)
        hi == Xor(c.hi, 65535)
        lo == Xor(c.lo, 65535)
    IN  IF hi >= 32768 THEN (hi - 65536) * 65536 + lo ELSE hi * 65536 + lo

(***************************************************************************)
(* seek-bzip (Bunzip.decode, called on line 644): the decoder of a bzip2   *)
(* stream.  The library is not part of the repository; the model decodes   *)
(* the bzip2 format.  A stream is 'B' 'Z' 'h', a level '1'..'9', blocks    *)
(* and an end marker with the checksum of the stream.  A block is its      *)
(* marker, its checksum, the start of the inverse Burrows-Wheeler          *)
(* transform, the octets in use, the selectors and code lengths of 2..6    *)
(* Huffman codes, and the coded symbols: run lengths (RUNA, RUNB),         *)
(* move-to-front positions and the end of the block.  Decoding fails on a  *)
(* stream that is cut short or breaks a rule of the format, and on a block *)
(* of the obsolete randomised kind.                                        *)
(***************************************************************************)
BunzipMagic == <<66, 90, 104>>
BlockMagic == <<49, 65, 89, 38, 83, 89>>
EndMagic == <<23, 114, 69, 56, 80, 144>>
MAX_HUFCODE_BITS == 20
MIN_GROUPS == 2
MAX_GROUPS == 6
GROUP_SIZE == 50
SYMBOL_RUNB == 1

\* The most octets of a block before the run-length decoding, per level.
BlockUnit == 100000

\* The run length at which decoding gives up (2 * 1024 * 1024).
MaxRunWeight == 2097152

BunzipFail == [ok |-> FALSE, data |-> << >>]

BitWeights == <<128, 64, 32, 16, 8, 4, 2, 1>>

\* The bits of a buffer, the most significant bit of each octet first.
StreamBits(buf) ==
    [i \in 1..8 * Len(buf) |->
        (buf[((i - 1) \div 8) + 1] \div BitWeights[((i - 1) % 8) + 1]) % 2]

\* The n bits from position p on are inside the stream.
HasBits(bits, p, n) == p + n - 1 <= Len(bits)

\* reader.read(n): the n bits from position p on, as a number.
RECURSIVE ReadBits(_, _, _)
ReadBits(bits, p, n) ==
    IF n = 0 THEN 0 ELSE 2 * ReadBits(bits, p, n - 1) + bits[p + n - 1]

\* n octets read from position p on.
ReadOctets(bits, p, n) == [k \in 1..n |-> ReadBits(bits, p + 8 * (k - 1), 8)]

\* The bzip2 checksum: CRC-32 with the polynomial 0x04C11DB7, most
\* significant bit first, kept as two 16-bit halves.
BzCrcShift(c) ==
    LET hi == ((c.hi * 2) + (c.lo \div 32768)) % 65536
        lo == (c.lo * 2) % 65536
    IN  IF c.hi >= 32768
        THEN [hi |-> Xor(hi, 1217), lo |-> Xor(lo, 7607)]
        ELSE [hi |-> hi, lo |-> lo]

RECURSIVE BzCrcBits(_, _)
BzCrcBits(c, n) ==
    IF n = 0 THEN c
    ELSE CHOOSE r \in {BzCrcBits(d, n - 1) : d \in {BzCrcShift(c)}} : TRUE

BzCrcTable == [b \in 0..255 |-> BzCrcBits([hi |-> b * 256, lo |-> 0], 8)]

\* One octet: crc = (crc << 8) ^ table[(crc >>> 24) ^ octet].
BzCrcByte(c, octet) ==
    LET e == BzCrcTable[Xor(c.hi \div 256, octet)]
    IN  [hi |-> Xor((c.hi % 256) * 256 + (c.lo \div 256), e.hi),
         lo |-> Xor((c.lo % 256) * 256, e.lo)]

\* The octets lo..hi of buf, one half after the other.
RECURSIVE BzCrcBytes(_, _, _, _)
BzCrcBytes(c, buf, lo, hi) ==
    IF lo > hi THEN c
    ELSE IF lo = hi THEN BzCrcByte(c, buf[lo])
    ELSE CHOOSE r \in {BzCrcBytes(d, buf, ((lo + hi) \div 2) + 1, hi) :
                          d \in {BzCrcBytes(c, buf, lo, (lo + hi) \div 2)}} : TRUE

BzCrc(buf) ==
    LET c == BzCrcBytes([hi |-> 65535, lo |-> 65535], buf, 1, Len(buf))
    IN  [hi |-> Xor(c.hi, 65535), lo |-> Xor(c.lo, 65535)]

\* A checksum as the stream stores it: four octets, the most significant first.
StoredCrc(octets) ==
    [hi |-> octets[1] * 256 + octets[2], lo |-> octets[3] * 256 + octets[4]]

\* The checksum of the stream after one more block: the checksum so far
\* rotated left by one bit, exclusive-or the checksum of the block.
CombineCrc(stream, block) ==
    [hi |-> Xor(((stream.hi * 2) + (stream.lo \div 32768)) % 65536, block.hi),
     lo |-> Xor(((stream.lo * 2) + (stream.hi \div 32768)) % 65536, block.lo)]

\* The octets in use.  The 16 bits from pt on say which ranges of 16 octet
\* values have a map of their own; the maps follow from p on.
UsedIn(bits, p, first) ==
    SelectSeq([j \in 1..16 |-> first + j - 1], LAMBDA v : bits[p + (v - first)] = 1)

RECURSIVE SymbolMap(_, _, _, _, _)
SymbolMap(bits, pt, p, i, syms) ==
    IF i = 16 THEN [ok |-> TRUE, p |-> p, syms |-> syms]
    ELSE IF bits[pt + i] = 0 THEN SymbolMap(bits, pt, p, i + 1, syms)
    ELSE IF ~HasBits(bits, p, 16) THEN [ok |-> FALSE, p |-> p, syms |-> syms]
    ELSE SymbolMap(bits, pt, p + 16, i + 1, syms \o UsedIn(bits, p, 16 * i))

\* mtf(array, index): the element at index (from 0) moves to the front.
MoveToFront(list, i) ==
    <<list[i + 1]>> \o SubSeq(list, 1, i) \o SubSeq(list, i + 2, Len(list))

\* The number of 1 bits before the next 0 bit, or -1 when the stream ends
\* first or the number reaches limit.
RECURSIVE UnaryCount(_, _, _, _)
UnaryCount(bits, p, j, limit) ==
    IF ~HasBits(bits, p, 1) \/ j >= limit THEN -1
    ELSE IF bits[p] = 0 THEN j
    ELSE UnaryCount(bits, p + 1, j + 1, limit)

\* The selectors: n move-to-front positions among the groups, each coded as
\* its number of 1 bits and a 0 bit.  s holds the position p, the number n of
\* selectors still to read, the groups in move-to-front order and the
\* selectors read; j is the number just read.
SelectorRead(s, j) ==
    IF j < 0 THEN [s EXCEPT !.ok = FALSE]
    ELSE [s EXCEPT !.p = @ + j + 1, !.n = @ - 1, !.order = MoveToFront(@, j),
                   !.sel = Append(@, s.order[j + 1])]

SelectorStep(bits, s) ==
    IF ~s.ok \/ s.n = 0 THEN s
    ELSE SelectorRead(s, UnaryCount(bits, s.p, 0, Len(s.order)))

\* k steps of the loop, one half after the other.
RECURSIVE SelectorSteps(_, _, _)
SelectorSteps(bits, s, k) ==
    IF k = 0 THEN s
    ELSE IF k = 1 THEN SelectorStep(bits, s)
    ELSE CHOOSE r \in {SelectorSteps(bits, d, k - (k \div 2)) :
                          d \in {SelectorSteps(bits, s, k \div 2)}} : TRUE

Selectors(bits, p, n, order) ==
    SelectorSteps(bits, [ok |-> TRUE, p |-> p, n |-> n, order |-> order, sel |-> << >>], n)

\* The code lengths of one group: each length is the one before it, changed
\* by the pairs 10 (one more) and 11 (one less) that come before a 0 bit.
\* s holds the position p, the number n of lengths still to read, the
\* length t and the lengths read.  One step reads a 0 bit or a pair.
CodeLengthStep(bits, s) ==
    IF ~s.ok \/ s.n = 0 THEN s
    ELSE IF s.t < 1 \/ s.t > MAX_HUFCODE_BITS \/ ~HasBits(bits, s.p, 1)
    THEN [s EXCEPT !.ok = FALSE]
    ELSE IF bits[s.p] = 0
    THEN [s EXCEPT !.p = @ + 1, !.n = @ - 1, !.lens = Append(@, s.t)]
    ELSE IF ~HasBits(bits, s.p, 2) THEN [s EXCEPT !.ok = FALSE]
    ELSE [s EXCEPT !.p = @ + 2, !.t = IF bits[s.p + 1] = 0 THEN @ + 1 ELSE @ - 1]

RECURSIVE CodeLengthSteps(_, _, _)
CodeLengthSteps(bits, s, k) ==
    IF k = 0 THEN s
    ELSE IF k = 1 THEN CodeLengthStep(bits, s)
    ELSE CHOOSE r \in {CodeLengthSteps(bits, d, k - (k \div 2)) :
                          d \in {CodeLengthSteps(bits, s, k \div 2)}} : TRUE

\* Every step but the last takes at least one bit of the stream.
CodeLengths(bits, p, n, t) ==
    CodeLengthSteps(bits, [ok |-> TRUE, p |-> p, n |-> n, t |-> t, lens |-> << >>],
                    (Len(bits) - p) + 2)

\* The symbols (from 0) in the order of their codes: by length, then by number.
RECURSIVE Permute(_, _)
Permute(lens, len) ==
    IF len > MAX_HUFCODE_BITS THEN << >>
    ELSE SelectSeq([s \in 1..Len(lens) |-> s - 1], LAMBDA s : lens[s + 1] = len)
         \o Permute(lens, len + 1)

\* The decoding table of a group: the shortest and the longest length, the
\* symbols in code order, and the number of codes of each length.
HufGroup(lens) ==
    [minLen |-> CHOOSE l \in 1..MAX_HUFCODE_BITS :
                    /\ \E s \in DOMAIN lens : lens[s] = l
                    /\ \A s \in DOMAIN lens : lens[s] >= l,
     maxLen |-> CHOOSE l \in 1..MAX_HUFCODE_BITS :
                    /\ \E s \in DOMAIN lens : lens[s] = l
                    /\ \A s \in DOMAIN lens : lens[s] <= l,
     permute |-> Permute(lens, 1),
     count |-> [l \in 1..MAX_HUFCODE_BITS |->
                   Cardinality({s \in DOMAIN lens : lens[s] = l})]]

\* The tables of the groups: 5 bits of first length, then the lengths of the
\* symCount symbols.
RECURSIVE Groups(_, _, _, _, _)
GroupStep(bits, p, n, symCount, groups, r) ==
    IF ~r.ok \/ r.n > 0 THEN [ok |-> FALSE, p |-> p, groups |-> groups]
    ELSE Groups(bits, r.p, n - 1, symCount, Append(groups, HufGroup(r.lens)))

Groups(bits, p, n, symCount, groups) ==
    IF n = 0 THEN [ok |-> TRUE, p |-> p, groups |-> groups]
    ELSE IF ~HasBits(bits, p, 5) THEN [ok |-> FALSE, p |-> p, groups |-> groups]
    ELSE GroupStep(bits, p, n, symCount, groups,
             CodeLengths(bits, p + 5, symCount, ReadBits(bits, p, 5)))

\* One symbol.  j holds the i bits read so far; a code of length i is one of
\* the count[i] values from first on, and the codes of the shorter lengths
\* are the `before` first symbols of permute.
RECURSIVE HufWalk(_, _, _, _, _, _, _)
HufWalk(bits, p, g, i, j, first, before) ==
    IF i > g.maxLen THEN [ok |-> FALSE, p |-> p, sym |-> 0]
    ELSE IF j < first + g.count[i]
    THEN [ok |-> TRUE, p |-> p, sym |-> g.permute[before + (j - first) + 1]]
    ELSE IF ~HasBits(bits, p, 1) THEN [ok |-> FALSE, p |-> p, sym |-> 0]
    ELSE HufWalk(bits, p + 1, g, i + 1, 2 * j + bits[p],
                 2 * (first + g.count[i]), before + g.count[i])

HufSymbol(bits, p, g) ==
    IF ~HasBits(bits, p, g.minLen) THEN [ok |-> FALSE, p |-> p, sym |-> 0]
    ELSE HufWalk(bits, p + g.minLen, g, g.minLen, ReadBits(bits, p, g.minLen), 0, 0)

\* n copies of the octet b.
Run(n, b) == [k \in 1..n |-> b]

\* The symbols of a block.  h holds the octets in use (syms), the groups,
\* the selectors and the most octets the block may hold (dbufSize); st the
\* position p, the number n of symbols read, the move-to-front list mtf, the
\* octets dbuf decoded so far, the length t of the run being read with the
\* weight runPos of its next symbol, and whether the end of the block has
\* been read (done).  Every GROUP_SIZE symbols the next selector names the
\* group.  r is the symbol just read.
Flushed(st) ==
    [st EXCEPT !.dbuf = @ \o Run(st.t, st.mtf[1]), !.t = 0, !.runPos = 1]

SymbolRead(h, st, r) ==
    IF ~r.ok THEN [st EXCEPT !.ok = FALSE]
    ELSE IF r.sym <= SYMBOL_RUNB
    THEN IF st.runPos >= MaxRunWeight \/ st.t + (r.sym + 1) * st.runPos > h.dbufSize
         THEN [st EXCEPT !.ok = FALSE]
         ELSE [st EXCEPT !.p = r.p, !.n = @ + 1,
                         !.t = @ + (r.sym + 1) * st.runPos, !.runPos = 2 * @]
    ELSE IF Len(st.dbuf) + st.t > h.dbufSize THEN [st EXCEPT !.ok = FALSE]
    ELSE IF r.sym > Len(h.syms) THEN [Flushed(st) EXCEPT !.p = r.p, !.done = TRUE]
    ELSE IF Len(st.dbuf) + st.t >= h.dbufSize THEN [st EXCEPT !.ok = FALSE]
    ELSE [Flushed(st) EXCEPT !.p = r.p, !.n = @ + 1,
                             !.mtf = MoveToFront(@, r.sym - 1),
                             !.dbuf = Append(@, st.mtf[r.sym])]

SymbolStep(bits, h, st) ==
    IF ~st.ok \/ st.done THEN st
    ELSE IF st.n \div GROUP_SIZE >= Len(h.selectors) THEN [st EXCEPT !.ok = FALSE]
    ELSE SymbolRead(h, st,
             HufSymbol(bits, st.p, h.groups[h.selectors[(st.n \div GROUP_SIZE) + 1] + 1]))

RECURSIVE SymbolSteps(_, _, _, _)
SymbolSteps(bits, h, st, k) ==
    IF k = 0 THEN st
    ELSE IF k = 1 THEN SymbolStep(bits, h, st)
    ELSE CHOOSE r \in {SymbolSteps(bits, h, d, k - (k \div 2)) :
                          d \in {SymbolSteps(bits, h, st, k \div 2)}} : TRUE

\* Every symbol takes at least one bit of the stream.
Symbols(bits, h, p) ==
    SymbolSteps(bits, h,
                [ok |-> TRUE, done |-> FALSE, p |-> p, n |-> 0, mtf |-> h.syms,
                 dbuf |-> << >>, t |-> 0, runPos |-> 1],
                (Len(bits) - p) + 2)

\* The inverse Burrows-Wheeler transform.  link[k + 1] is the position (from
\* 0) in dbuf of the octet that is number k when the octets of dbuf are put in
\* order, equal octets keeping theirs: the positions of the octet syms[lo],
\* then those of the next octet in use, up to syms[hi].
RECURSIVE Links(_, _, _, _)
Links(dbuf, syms, lo, hi) ==
    IF lo > hi THEN << >>
    ELSE IF lo = hi
    THEN SelectSeq([i \in DOMAIN dbuf |-> i - 1], LAMBDA i : dbuf[i + 1] = syms[lo])
    ELSE Links(dbuf, syms, lo, (lo + hi) \div 2)
         \o Links(dbuf, syms, ((lo + hi) \div 2) + 1, hi)

\* One octet of the output: the octet at pos, then on to its link.
FollowStep(dbuf, link, s) ==
    [pos |-> link[s.pos + 1], out |-> Append(s.out, dbuf[s.pos + 1])]

RECURSIVE FollowSteps(_, _, _, _)
FollowSteps(dbuf, link, s, k) ==
    IF k = 0 THEN s
    ELSE IF k = 1 THEN FollowStep(dbuf, link, s)
    ELSE CHOOSE r \in {FollowSteps(dbuf, link, d, k - (k \div 2)) :
                          d \in {FollowSteps(dbuf, link, s, k \div 2)}} : TRUE

Untransform(dbuf, link, origPointer) ==
    FollowSteps(dbuf, link, [pos |-> link[origPointer + 1], out |-> << >>], Len(dbuf)).out

\* The run-length decoding of the output: after four equal octets the next
\* octet is the number of further copies.  s holds the octet before, the
\* length of its run and the output; one step takes octet k.
UnRunStep(octets, s, k) ==
    IF s.run = 4
    THEN [previous |-> -1, run |-> 0, out |-> s.out \o Run(octets[k], s.previous)]
    ELSE IF octets[k] = s.previous
    THEN [s EXCEPT !.run = @ + 1, !.out = Append(@, octets[k])]
    ELSE [previous |-> octets[k], run |-> 1, out |-> Append(s.out, octets[k])]

\* The octets lo..hi, one half after the other.
RECURSIVE UnRunSteps(_, _, _, _)
UnRunSteps(octets, s, lo, hi) ==
    IF lo > hi THEN s
    ELSE IF lo = hi THEN UnRunStep(octets, s, lo)
    ELSE CHOOSE r \in {UnRunSteps(octets, d, ((lo + hi) \div 2) + 1, hi) :
                          d \in {UnRunSteps(octets, s, lo, (lo + hi) \div 2)}} : TRUE

UnRun(octets) ==
    UnRunSteps(octets, [previous |-> -1, run |-> 0, out |-> << >>], 1, Len(octets)).out

\* The output of a block whose symbols gave s; origPointer must lie inside it.
BlockData(s, syms, origPointer) ==
    IF ~s.ok \/ ~s.done \/ origPointer >= Len(s.dbuf)
    THEN [ok |-> FALSE, p |-> s.p, data |-> << >>]
    ELSE [ok |-> TRUE, p |-> s.p,
          data |-> UnRun(Untransform(s.dbuf, Links(s.dbuf, syms, 1, Len(syms)),
                                     origPointer))]

\* A block from its groups on: g is the outcome of reading the tables.
BlockSymbols(bits, syms, sel, dbufSize, origPointer, g) ==
    IF ~g.ok THEN [ok |-> FALSE, p |-> g.p, data |-> << >>]
    ELSE BlockData(Symbols(bits,
                           [syms |-> syms, groups |-> g.groups, selectors |-> sel.sel,
                            dbufSize |-> dbufSize],
                           g.p),
                   syms, origPointer)

\* A block from its code lengths on: sel is the outcome of reading the
\* selectors of groupCount groups.
BlockGroups(bits, syms, groupCount, dbufSize, origPointer, sel) ==
    IF ~sel.ok \/ sel.n > 0 THEN [ok |-> FALSE, p |-> sel.p, data |-> << >>]
    ELSE BlockSymbols(bits, syms, sel, dbufSize, origPointer,
                      Groups(bits, sel.p, groupCount, Len(syms) + 2, << >>))

\* A block from the number of groups on: m is the outcome of reading the
\* octets in use.
BlockSelectors(bits, dbufSize, origPointer, m) ==
    IF ~m.ok \/ m.syms = << >> \/ ~HasBits(bits, m.p, 18)
    THEN [ok |-> FALSE, p |-> m.p, data |-> << >>]
    ELSE IF \/ ReadBits(bits, m.p, 3) < MIN_GROUPS
            \/ ReadBits(bits, m.p, 3) > MAX_GROUPS
            \/ ReadBits(bits, m.p + 3, 15) = 0
    THEN [ok |-> FALSE, p |-> m.p, data |-> << >>]
    ELSE BlockGroups(bits, m.syms, ReadBits(bits, m.p, 3), dbufSize, origPointer,
                     Selectors(bits, m.p + 18, ReadBits(bits, m.p + 3, 15),
                               [g \in 1..ReadBits(bits, m.p, 3) |-> g - 1]))

\* _get_next_block after the marker and the checksum: p is the position of
\* the `randomised` bit, followed by 24 bits of origPointer and the 16 bits
\* of the ranges in use.  The library has no derandomisation: a block with
\* the bit set throws OBSOLETE_INPUT, where libbzip2 would decode it.  An
\* origPointer beyond the block size throws DATA_ERROR.
ReadBlock(bits, p, dbufSize) ==
    IF ~HasBits(bits, p, 41) THEN [ok |-> FALSE, p |-> p, data |-> << >>]
    ELSE IF bits[p] = 1 \/ ReadBits(bits, p + 1, 24) > dbufSize
    THEN [ok |-> FALSE, p |-> p, data |-> << >>]
    ELSE BlockSelectors(bits, dbufSize, ReadBits(bits, p + 1, 24),
                        SymbolMap(bits, p + 25, p + 41, 0, << >>))

\* The blocks from position p on: each block must have the checksum it
\* carries, and the end marker the checksum of the stream.  b is the outcome
\* of the block at p, if there is one.
RECURSIVE Blocks(_, _, _, _, _)
BlockChecked(bits, p, dbufSize, streamCRC, out, b) ==
    IF ~b.ok THEN BunzipFail
    ELSE IF BzCrc(b.data) # StoredCrc(ReadOctets(bits, p + 48, 4)) THEN BunzipFail
    ELSE Blocks(bits, b.p, dbufSize,
                CombineCrc(streamCRC, StoredCrc(ReadOctets(bits, p + 48, 4))),
                out \o b.data)

Blocks(bits, p, dbufSize, streamCRC, out) ==
    IF ~HasBits(bits, p, 80) THEN BunzipFail
    ELSE IF ReadOctets(bits, p, 6) = EndMagic
    THEN IF StoredCrc(ReadOctets(bits, p + 48, 4)) = streamCRC
         THEN [ok |-> TRUE, data |-> out]
         ELSE BunzipFail
    ELSE IF ReadOctets(bits, p, 6) # BlockMagic THEN BunzipFail
    ELSE BlockChecked(bits, p, dbufSize, streamCRC, out,
                      ReadBlock(bits, p + 80, dbufSize))

\* Bunzip.decode(buf): [ok, data], data the decoded octets when ok; the
\* library throws otherwise.
BunzipDecode(buf) ==
    IF /\ Len(buf) >= 4
       /\ SubSeq(buf, 1, 3) = BunzipMagic
       /\ buf[4] >= 49
       /\ buf[4] <= 57
    THEN Blocks(StreamBits(buf), 33, BlockUnit * (buf[4] - 48),
                [hi |-> 0, lo |-> 0], << >>)
    ELSE BunzipFail

(***************************************************************************)
(* Response decoders.  A decoder returns [ok, err, value]: value is the    *)
(* decoded result when ok, err the error it throws otherwise.  A read past *)
(* the end of the payload throws ReadError.                                *)
(***************************************************************************)
NoError == "none"
ErrUnknownType == "Unknown response type"
NoValue == [kind |-> "none"]

Decoded(v) == [ok |-> TRUE, err |-> NoError, value |-> v]
DecodeError(e) == [ok |-> FALSE, err |-> e, value |-> NoValue]

FieldWidth(t) ==
    CASE t = "u8" -> 1 [] t = "u16" -> 2 [] t = "u32" -> 4
      [] t = "f32" -> 4 [] t = "u64" -> 8 [] OTHER -> 0

FieldValue(buf, off, t) ==
    CASE t = "u8" -> ReadUInt8(buf, off)
      [] t = "u16" -> ReadUInt16LE(buf, off)
      [] t = "u32" -> ReadUInt32LE(buf, off)
      [] t = "f32" -> ReadFloatBits(buf, off)
      [] t = "u64" -> ReadBigUInt64Octets(buf, off)

\* A run of reader calls in source order: "str" is readString, "skip" is
\* skip(1), the others the fixed-width reads.  Stops at the first read that
\* throws; err is the error it threw.
RECURSIVE ReadFields(_, _, _, _)
ReadFields(buf, off, types, vals) ==
    IF types = << >> THEN [ok |-> TRUE, vals |-> vals, off |-> off, err |-> NoError]
    ELSE LET t == Head(types) IN
         IF t = "str"
         THEN LET r == ReadString(buf, off)
              IN  ReadFields(buf, r.off, Tail(types), Append(vals, r.str))
         ELSE IF t = "skip"
         THEN ReadFields(buf, off + 1, Tail(types), vals)
         ELSE IF ~CanRead(buf, off, FieldWidth(t))
         THEN [ok |-> FALSE, vals |-> vals, off |-> off,
               err |-> ReadError(buf, FieldWidth(t))]
         ELSE ReadFields(buf, off + FieldWidth(t), Tail(types),
                         Append(vals, FieldValue(buf, off, t)))

Bit(flag, mask) == (flag \div mask) % 2 = 1

\* The extra-data fields the flag octet announces, in the order the source
\* tests its bits: 0x80 port, 0x10 steamID, 0x40 tvPort and tvName,
\* 0x20 keywords, 0x01 gameID.
ExtraDataNames(flag) ==
    (IF Bit(flag, 128) THEN <<"port">> ELSE << >>)
    \o (IF Bit(flag, 16) THEN <<"steamID">> ELSE << >>)
    \o (IF Bit(flag, 64) THEN <<"tvPort", "tvName">> ELSE << >>)
    \o (IF Bit(flag, 32) THEN <<"keywords">> ELSE << >>)
    \o (IF Bit(flag, 1) THEN <<"gameID">> ELSE << >>)

ExtraDataType(name) ==
    CASE name = "port" -> "u16" [] name = "steamID" -> "u64"
      [] name = "tvPort" -> "u16" [] name = "tvName" -> "str"
      [] name = "keywords" -> "str" [] name = "gameID" -> "u64"

InfoFieldTypes ==
    <<"u8", "str", "str", "str", "str", "u16", "u8", "u8", "u8", "u8", "u8",
      "u8", "u8", "str">>

\* The server information parseInfoResponse builds from its fixed fields.
InfoRecord(vals) ==
    [kind |-> "info", protocol |-> vals[1], name |-> vals[2], map |-> vals[3],
     folder |-> vals[4], game |-> vals[5], id |-> vals[6], players |-> vals[7],
     maxPlayers |-> vals[8], bots |-> vals[9], serverType |-> vals[10],
     environment |-> vals[11], visibility |-> vals[12], vac |-> vals[13],
     version |-> vals[14]]

\* parseInfoResponse, the extra data: e is the outcome of reading the fields
\* called names.
InfoExtraData(info, names, e) ==
    IF ~e.ok THEN DecodeError(e.err)
    ELSE Decoded(info @@ [extraData |-> [k \in 1..Len(names) |-> <<names[k], e.vals[k]>>],
                          hasExtraData |-> TRUE])

InfoExtra(buf, off, info, names) ==
    InfoExtraData(info, names,
        ReadFields(buf, off, [k \in 1..Len(names) |-> ExtraDataType(names[k])], << >>))

\* parseInfoResponse after the fixed fields: b is the outcome of reading them.
\* Extra data are read only `if (reader.remaining() > 0)`.
InfoBase(buf, b) ==
    IF ~b.ok THEN DecodeError(b.err)
    ELSE IF ~(b.off < Len(buf))
    THEN Decoded(InfoRecord(b.vals) @@ [extraData |-> << >>, hasExtraData |-> FALSE])
    ELSE InfoExtra(buf, b.off + 1, InfoRecord(b.vals),
                   ExtraDataNames(ReadUInt8(buf, b.off)))

\* parseInfoResponse.  The reader stands right after the 0x49 discriminator.
ParseInfoResponse(buf, off) ==
    InfoBase(buf, ReadFields(buf, off, InfoFieldTypes, << >>))

ObsoleteFieldTypes ==
    <<"str", "str", "str", "str", "str", "u8", "u8", "u8", "u8", "u8", "u8", "u8">>

ObsoleteModTypes == <<"str", "str", "skip", "u32", "u32", "u8", "u8">>

\* parseInfoObsoleteResponse, the end: t is the outcome of reading vac and bots.
ObsoleteRecord(b, m, t) ==
    IF ~t.ok THEN DecodeError(t.err)
    ELSE Decoded([kind |-> "info", address |-> b.vals[1], name |-> b.vals[2],
                  map |-> b.vals[3], folder |-> b.vals[4], game |-> b.vals[5],
                  players |-> b.vals[6], maxPlayers |-> b.vals[7],
                  protocol |-> b.vals[8], serverType |-> b.vals[9],
                  environment |-> b.vals[10], visibility |-> b.vals[11],
                  hasMod |-> b.vals[12] = 1, mod |-> m.vals,
                  vac |-> t.vals[1], bots |-> t.vals[2]])

\* m is the outcome of reading the mod fields (none when the mod octet is not 1).
ObsoleteTail(buf, b, m) ==
    IF ~m.ok THEN DecodeError(m.err)
    ELSE ObsoleteRecord(b, m, ReadFields(buf, m.off, <<"u8", "u8">>, << >>))

\* b is the outcome of reading the fixed fields, the last of them the mod octet.
ObsoleteMod(buf, b) ==
    IF ~b.ok THEN DecodeError(b.err)
    ELSE ObsoleteTail(buf, b,
             IF b.vals[12] = 1 THEN ReadFields(buf, b.off, ObsoleteModTypes, << >>)
             ELSE [ok |-> TRUE, vals |-> << >>, off |-> b.off, err |-> NoError])

\* parseInfoObsoleteResponse.  The reader stands right after the 0x6D
\* discriminator.
ParseInfoObsoleteResponse(buf, off) ==
    ObsoleteMod(buf, ReadFields(buf, off, ObsoleteFieldTypes, << >>))

\* parsePlayerResponse, first loop: playerCount base records.  r is the
\* outcome of reading one record.
RECURSIVE PlayerBaseLoop(_, _, _, _)
PlayerBaseStep(buf, off, n, players, r) ==
    IF ~r.ok THEN [ok |-> FALSE, vals |-> players, off |-> off, err |-> r.err]
    ELSE PlayerBaseLoop(buf, r.off, n - 1,
             Append(players, [index |-> r.vals[1], name |-> r.vals[2],
                              score |-> r.vals[3], duration |-> r.vals[4],
                              ship |-> FALSE, deaths |-> UInt32Of(0), money |-> UInt32Of(0)]))

PlayerBaseLoop(buf, off, n, players) ==
    IF n = 0 THEN [ok |-> TRUE, vals |-> players, off |-> off, err |-> NoError]
    ELSE PlayerBaseStep(buf, off, n, players,
             ReadFields(buf, off, <<"u8", "str", "u32", "f32">>, << >>))

\* parsePlayerResponse, second loop: deaths and money of player i, i + 1, ...
RECURSIVE PlayerShipLoop(_, _, _, _)
PlayerShipStep(buf, off, i, players, r) ==
    IF ~r.ok THEN [ok |-> FALSE, vals |-> players, off |-> off, err |-> r.err]
    ELSE PlayerShipLoop(buf, r.off, i + 1,
             [players EXCEPT ![i] = [@ EXCEPT !.ship = TRUE,
                                               !.deaths = r.vals[1],
                                               !.money = r.vals[2]]])

PlayerShipLoop(buf, off, i, players) ==
    IF i > Len(players) THEN [ok |-> TRUE, vals |-> players, off |-> off, err |-> NoError]
    ELSE PlayerShipStep(buf, off, i, players,
             ReadFields(buf, off, <<"u32", "u32">>, << >>))

\* s is the outcome of the second loop.
PlayersShips(s) ==
    IF ~s.ok THEN DecodeError(s.err)
    ELSE Decoded([kind |-> "players", players |-> s.vals])

\* A decoder without the second loop.
PlayersBaseNoShip(buf, b) ==
    IF ~b.ok THEN DecodeError(b.err)
    ELSE Decoded([kind |-> "players", players |-> b.vals])

\* b is the outcome of the first loop; the second loop runs only
\* `if (reader.getOffset() < reader.byteLength())`.
PlayersBase(buf, b) ==
    IF ~b.ok THEN DecodeError(b.err)
    ELSE IF ~(b.off < Len(buf))
    THEN Decoded([kind |-> "players", players |-> b.vals])
    ELSE PlayersShips(PlayerShipLoop(buf, b.off, 1, b.vals))

\* parsePlayerResponse.  The reader stands right after the 0x44 discriminator.
ParsePlayerResponse(buf, off) ==
    IF ~CanRead(buf, off, 1) THEN DecodeError(ReadError(buf, 1))
    ELSE PlayersBase(buf, PlayerBaseLoop(buf, off + 1, ReadUInt8(buf, off), << >>))

\* The name "__proto__".
ProtoName == <<95, 95, 112, 114, 111, 116, 111, 95, 95>>

\* rules[key] = value on the object {}: a later key replaces an earlier one.
\* The key __proto__ is the accessor inherited from Object.prototype:
\* assigning a string to it stores nothing.
SetRule(rules, key, value) ==
    IF key = ProtoName THEN rules
    ELSE [k \in DOMAIN rules \cup {key} |-> IF k = key THEN value ELSE rules[k]]

RECURSIVE RulesLoop(_, _, _, _)
RulesLoop(buf, off, n, rules) ==
    IF n = 0 THEN rules
    ELSE LET k == ReadString(buf, off)
             v == ReadString(buf, k.off)
         IN  RulesLoop(buf, v.off, n - 1, SetRule(rules, k.str, v.str))

\* parseRulesResponse.  The reader stands right after the 0x45 discriminator.
ParseRulesResponse(buf, off) ==
    IF ~CanRead(buf, off, 2) THEN DecodeError(ReadError(buf, 2))
    ELSE Decoded([kind |-> "rules",
                  rules |-> RulesLoop(buf, off + 2, ReadUInt16LE(buf, off), << >>)])

\* Payload discriminators.
A2S_INFO_RESPONSE == 73
A2S_INFO_OBSOLETE_RESPONSE == 109
A2S_PLAYER_RESPONSE == 68
A2S_RULES_RESPONSE == 69

\* parseResponse: new BufferReader(payload, 4), readInt8, dispatch.
ParseResponse(payload) ==
    IF ~CanRead(payload, 4, 1) THEN DecodeError(ReadError(payload, 1))
    ELSE LET header == ReadInt8(payload, 4) IN
         IF header = A2S_INFO_RESPONSE THEN ParseInfoResponse(payload, 5)
         ELSE IF header = A2S_INFO_OBSOLETE_RESPONSE THEN ParseInfoObsoleteResponse(payload, 5)
         ELSE IF header = A2S_PLAYER_RESPONSE THEN ParsePlayerResponse(payload, 5)
         ELSE IF header = A2S_RULES_RESPONSE THEN ParseRulesResponse(payload, 5)
         ELSE DecodeError(ErrUnknownType)

(***************************************************************************)
(* Source.get: the state of one call.  The fields header .. orangeBox are  *)
(* the closure variables of get(); timerArmed is timeoutId, socketOpen the *)
(* dgram socket, promise/result/error the promise get() was handed, sent   *)
(* the requests given to socket.send.  thrown is the exception unwinding   *)
(* the running handler.  debug is the flag of the Source object and trace   *)
(* the lines it has written to the console.  now is the time since get()   *)
(* was called, deadline the time the armed timer fires at and timersSet    *)
(* the number of setTimeout calls.  The remaining fields record            *)
(* history: uncaught                                                       *)
(* (exceptions that left an event handler), log (the events delivered),    *)
(* the numbers of close(), resolve/reject, reload, completion and          *)
(* onMessage steps,                                                        *)
(* fallbacks (the demotions that a failed decompression caused),           *)
(* totalPackets (the total the last stored datagram declared),             *)
(* assembledFrom, assembledTotal and assembledCompressed (the packet map,   *)
(* the declared total and isCompressed at the last completion), and        *)
(* resolvedFrom (the payload whose decoding resolved the promise).         *)
(***************************************************************************)
A2S_INFO == 84
A2S_PLAYER == 85
A2S_RULES == 86
Headers == {A2S_INFO, A2S_PLAYER, A2S_RULES}

\* A retry limit that is one too high.
maxRetriesOff == 2 + 1

maxRetries == 2

\* this.timeout (line 434), in ticks of the clock of a call.
TimeoutTicks == 2

A2S_CHALLENGE_RESPONSE_HEADER == 65
A2S_MULTI_PACKET_HEADER == -2
A2S_SINGLE_PACKET_HEADER == -1
firstPacketPayloadHeader == <<255, 255, 255, 255>>

\* "Source Engine Query\0"
SourceEngineQuery ==
    <<83, 111, 117, 114, 99, 101, 32, 69, 110, 103, 105, 110, 101, 32, 81, 117,
      101, 114, 121, 0>>

ErrTimeout == "Request timed out"
ErrMaxRetries == "Max retries reached while handling challenge"
ErrInvalidHeader == "Invalid response header"
ErrChecksum == "Checksum mismatch"
ErrBunzip == "seek-bzip decode error"
ErrNotRunning == "ERR_SOCKET_DGRAM_NOT_RUNNING"
ErrTransport == "socket error"

NoDispatch ==
    [multi |-> FALSE, compressed |-> FALSE, wire |-> << >>, payload |-> << >>,
     checksum |-> 0]

\* An exception thrown by the running handler.
Throw(c, e) == [c EXCEPT !.thrown = e]

\* if (this.debug) console.log("[DEBUG] " + line, ...)
Log(c, line) == IF c.debug THEN [c EXCEPT !.trace = Append(@, line)] ELSE c

\* resolve(value): settles the promise if it is still pending.  d records
\* where the value came from.
Resolve(c, v, d) ==
    [c EXCEPT !.settleCalls = @ + 1,
              !.promise = IF c.promise = "pending" THEN "resolved" ELSE @,
              !.result = IF c.promise = "pending" THEN v ELSE @,
              !.resolvedFrom = IF c.promise = "pending" THEN d ELSE @]

\* reject(error): settles the promise if it is still pending.
Reject(c, e) ==
    [c EXCEPT !.settleCalls = @ + 1,
              !.promise = IF c.promise = "pending" THEN "rejected" ELSE @,
              !.error = IF c.promise = "pending" THEN e ELSE @]

\* socket.close().  dgram throws on a socket that is already closed.  The
\* 'close' listener (clearTimeout) runs on the next tick, before any timer or
\* datagram callback, so the timer is disarmed in the same step.
Close(c) ==
    IF ~c.socketOpen
    THEN Throw([c EXCEPT !.closeCalls = @ + 1], ErrNotRunning)
    ELSE [c EXCEPT !.closeCalls = @ + 1, !.socketOpen = FALSE, !.timerArmed = FALSE]

\* A sendRequest that drops the challenge it was given.
BuildRequestNoToken(header, hasChallenge, challenge) ==
    <<255, 255, 255, 255, header>>
    \o (IF header = A2S_INFO THEN SourceEngineQuery ELSE << >>)
    \o (IF header # A2S_INFO THEN <<255, 255, 255, 255>> ELSE << >>)

\* The request sendRequest builds.  hasChallenge is `if (challenge)`: true of
\* every Buffer, an empty one included.
BuildRequest(header, hasChallenge, challenge) ==
    <<255, 255, 255, 255, header>>
    \o (IF header = A2S_INFO THEN SourceEngineQuery ELSE << >>)
    \o (IF hasChallenge THEN challenge
        ELSE IF header # A2S_INFO THEN <<255, 255, 255, 255>> ELSE << >>)

\* sendRequest: socket.send throws on a closed socket.
SendRequest(c, hasChallenge, challenge) ==
    IF ~c.socketOpen THEN Throw(Log(c, "Send"), ErrNotRunning)
    ELSE [Log(c, "Send") EXCEPT
             !.sent = Append(@, BuildRequest(c.header, hasChallenge, challenge))]

\* packets[packetNumber] = message
PutPacket(packets, n, m) ==
    [k \in DOMAIN packets \cup {n} |-> IF k = n THEN m ELSE packets[k]]

\* The keys of packets in ascending numeric order: the order of Object.values
\* for integer keys, and of the sort in the reassembly.
RECURSIVE SortedKeys(_)
SortedKeys(keys) ==
    IF keys = {} THEN << >>
    ELSE LET lo == CHOOSE k \in keys : \A j \in keys : k <= j
         IN  <<lo>> \o SortedKeys(keys \ {lo})

PacketValues(packets) ==
    LET ks == SortedKeys(DOMAIN packets) IN [i \in 1..Len(ks) |-> packets[ks[i]]]

\* The payload bytes of the packet stored under key id (lines 627-635).
Fragment(c, id) ==
    IF c.goldSource THEN SubArrayFrom(c.packets[id], 9)
    ELSE SubArrayFrom(c.packets[id],
             10 + (IF c.orangeBox THEN 2 ELSE 0)
                + (IF id = 0 /\ c.isCompressed THEN 8 ELSE 0))

RECURSIVE ConcatFragments(_, _)
ConcatFragments(c, ks) ==
    IF ks = << >> THEN << >>
    ELSE Fragment(c, Head(ks)) \o ConcatFragments(c, Tail(ks))

AssembledPayload(c) == ConcatFragments(c, SortedKeys(DOMAIN c.packets))

\* A verification that accepts every checksum.
ChecksumMismatchOff(actual, expected) == FALSE

\* actualChecksum !== crc32CheckSum
ChecksumMismatch(actual, expected) == actual # expected

\* resolve(parseResponse(payload)); socket.close();  r is what parseResponse
\* returned or threw: a throwing parseResponse leaves before resolve and close
\* are reached.
Settle(c, r, d) ==
    IF r.ok THEN Close(Resolve(c, r.value, d)) ELSE Throw(c, r.err)

\* Lines 789 and 821: the decoders of players and rules log the count they
\* have read.
ParseLog(c, payload) ==
    IF ~CanRead(payload, 4, 1) THEN c
    ELSE IF ReadInt8(payload, 4) = A2S_PLAYER_RESPONSE /\ CanRead(payload, 5, 1)
    THEN Log(c, "Player Count")
    ELSE IF ReadInt8(payload, 4) = A2S_RULES_RESPONSE /\ CanRead(payload, 5, 2)
    THEN Log(c, "Rule Count")
    ELSE c

Dispatch(c, payload, d) == Settle(ParseLog(c, payload), ParseResponse(payload), d)

RECURSIVE OnMessage(_, _)

\* The loop of reload: onMessage on each entry; an exception ends the loop.
RECURSIVE ReloadEntries(_, _)
ReloadEntries(c, entries) ==
    IF entries = << >> \/ c.thrown # NoError THEN c
    ELSE ReloadEntries(OnMessage(c, Head(entries)), Tail(entries))

\* A reload that asks the server again before it replays the datagrams.
ReloadResend(c, extra) ==
    ReloadEntries([Log(c, "Reload") EXCEPT
                      !.packets = << >>, !.reloads = @ + 1,
                      !.sent = Append(@, BuildRequest(c.header, FALSE, << >>))],
                  PacketValues(c.packets) \o extra)

\* A reload whose loop runs over the entries twice.
ReloadDup(c, extra) ==
    ReloadEntries([Log(c, "Reload") EXCEPT !.packets = << >>, !.reloads = @ + 1],
                  PacketValues(c.packets) \o extra \o PacketValues(c.packets) \o extra)

\* reload(message): extra is <<message>>, or << >> when called without one.
Reload(c, extra) ==
    ReloadEntries([Log(c, "Reload") EXCEPT !.packets = << >>, !.reloads = @ + 1],
                  PacketValues(c.packets) \o extra)

\* Lines 640-644: Bunzip.decode of the assembled payload of a compressed
\* response; an uncompressed one is taken as it is.
Decompress(c, assembled) ==
    IF ~c.isCompressed THEN [ok |-> TRUE, data |-> assembled]
    ELSE BunzipDecode(assembled)

\* Line 654: the trace of a decompressed payload.
Decompressed(c) == IF c.isCompressed THEN Log(c, "Payload (Decompressed)") ELSE c

\* A delivery without the fallback: every failed decompression is thrown.
DeliverNoFallback(c, assembled, z) ==
    IF ~z.ok THEN Throw(c, ErrBunzip)
    ELSE IF c.isCompressed /\ ChecksumMismatch(Crc32Buf(z.data), c.crc32CheckSum)
    THEN Throw(Decompressed(c), ErrChecksum)
    ELSE Dispatch(Decompressed(c), z.data,
                  [multi |-> TRUE, compressed |-> c.isCompressed, wire |-> assembled,
                   payload |-> z.data, checksum |-> c.crc32CheckSum])

\* Lines 645-666: z is the outcome of the decompression.  A failed
\* decompression is retried once without the Orange Box framing; the checksum
\* of a decompressed payload is verified before it is parsed.
Deliver(c, assembled, z) ==
    IF ~z.ok
    THEN IF ~c.orangeBox THEN Throw(c, ErrBunzip)
         ELSE Reload([Log(c, "Below Orange Box Engine Detected") EXCEPT
                         !.orangeBox = FALSE, !.fallbacks = @ + 1],
                     << >>)
    ELSE IF c.isCompressed /\ ChecksumMismatch(Crc32Buf(z.data), c.crc32CheckSum)
    THEN Throw(Decompressed(c), ErrChecksum)
    ELSE Dispatch(Decompressed(c), z.data,
                  [multi |-> TRUE, compressed |-> c.isCompressed, wire |-> assembled,
                   payload |-> z.data, checksum |-> c.crc32CheckSum])

\* Lines 625-666 on the assembled payload.
Assemble(c, assembled) == Deliver(c, assembled, Decompress(c, assembled))

\* Lines 623-667: all packets are there.
Complete(c) ==
    Assemble([Log(c, "Payload") EXCEPT !.completions = @ + 1,
                                       !.assembledFrom = c.packets,
                                       !.assembledTotal = c.totalPackets,
                                       !.assembledCompressed = c.isCompressed],
             AssembledPayload(c))

\* Line 623: the test for completeness.
Stored(c, totalPackets) ==
    IF Cardinality(DOMAIN c.packets) = totalPackets THEN Complete(c) ELSE c

\* Lines 615-617: the trace of the total a packet 0 declares.
TotalLogged(c, packetNumber) ==
    IF packetNumber = 0 THEN Log(c, "Total Packets") ELSE c

\* Lines 615-623: store the datagram, then test for completeness.
StorePacket(c, message, totalPackets, packetNumber) ==
    Stored([TotalLogged(c, packetNumber) EXCEPT
               !.packets = PutPacket(@, packetNumber, message),
               !.totalPackets = totalPackets],
           totalPackets)

\* What reading the framing of a multi-packet datagram leaves: the call, and
\* totalPackets and packetNumber unless the handler has returned or thrown.
NoFrame(c) == [c |-> c, store |-> FALSE, totalPackets |-> 0, packetNumber |-> 0]
Frame(c, totalPackets, packetNumber) ==
    [c |-> c, store |-> TRUE, totalPackets |-> totalPackets,
     packetNumber |-> packetNumber]

\* A Source framing that retains the checksum only inside the debug branch of
\* line 609.
SourcePacketDebugCrc(c, message) ==
    IF ~CanRead(message, 8, 2) THEN NoFrame(Throw(c, ReadError(message, 1)))
    ELSE LET totalPackets == ReadUInt8(message, 8)
             packetNumber == ReadUInt8(message, 9)
             start == IF c.isCompressed THEN 18 ELSE 10
         IN
         IF c.orangeBox /\ packetNumber = 0
            /\ SubArray(message, start, start + 4) = firstPacketPayloadHeader
         THEN NoFrame(Reload([Log(c, "Below Orange Box Engine Detected") EXCEPT
                                 !.orangeBox = FALSE],
                             <<message>>))
         ELSE IF c.orangeBox /\ ~CanRead(message, 10, 2)
         THEN NoFrame(Throw(c, ReadError(message, 2)))
         ELSE LET off == IF c.orangeBox THEN 12 ELSE 10 IN
              IF packetNumber = 0 /\ c.isCompressed
              THEN IF ~CanRead(message, off, 8)
                   THEN NoFrame(Throw(Log(c, "Compression Detected"), ReadError(message, 4)))
                   ELSE Frame([Log(c, "Compression Detected") EXCEPT
                                  !.crc32CheckSum =
                                     IF c.debug THEN ReadInt32LE(message, off + 4)
                                     ELSE @],
                              totalPackets, packetNumber)
              ELSE Frame(c, totalPackets, packetNumber)

\* Lines 587-613: the Source framing of a multi-packet datagram.
SourcePacket(c, message) ==
    IF ~CanRead(message, 8, 2) THEN NoFrame(Throw(c, ReadError(message, 1)))
    ELSE LET totalPackets == ReadUInt8(message, 8)
             packetNumber == ReadUInt8(message, 9)
             start == IF c.isCompressed THEN 18 ELSE 10
         IN
         IF c.orangeBox /\ packetNumber = 0
            /\ SubArray(message, start, start + 4) = firstPacketPayloadHeader
         THEN NoFrame(Reload([Log(c, "Below Orange Box Engine Detected") EXCEPT
                                 !.orangeBox = FALSE],
                             <<message>>))
         ELSE IF c.orangeBox /\ ~CanRead(message, 10, 2)
         THEN NoFrame(Throw(c, ReadError(message, 2)))
         ELSE LET off == IF c.orangeBox THEN 12 ELSE 10 IN
              IF packetNumber = 0 /\ c.isCompressed
              THEN IF ~CanRead(message, off, 8)
                   THEN NoFrame(Throw(Log(c, "Compression Detected"), ReadError(message, 4)))
                   ELSE Frame([Log(c, "Compression Detected") EXCEPT
                                  !.crc32CheckSum = ReadInt32LE(message, off + 4)],
                              totalPackets, packetNumber)
              ELSE Frame(c, totalPackets, packetNumber)

\* Lines 583-586: the GoldSource framing, both numbers in one octet.
GoldSourcePacket(c, message) ==
    IF ~CanRead(message, 8, 1) THEN NoFrame(Throw(c, ReadError(message, 1)))
    ELSE Frame(c, ReadUInt8(message, 8) % 16, (ReadUInt8(message, 8) \div 16) % 16)

\* Lines 615-667: f is what reading the framing left.
Framed(f, message) ==
    IF f.store THEN StorePacket(f.c, message, f.totalPackets, f.packetNumber)
    ELSE f.c

\* Lines 566-667: a datagram with the multi-packet header.
MultiPacket(c0, message) ==
    IF ~CanRead(message, 4, 4) THEN Throw(c0, ReadError(message, 4))
    ELSE LET c == [c0 EXCEPT !.isCompressed = ReadInt32LE(message, 4) < 0] IN
         IF ~c.goldSource /\ SubArray(message, 9, 13) = firstPacketPayloadHeader
         THEN Reload([Log(c, "Obsolete GoldSource Response Detected") EXCEPT
                         !.goldSource = TRUE],
                     <<message>>)
         ELSE Framed(IF c.goldSource THEN GoldSourcePacket(c, message)
                     ELSE SourcePacket(c, message),
                     message)

\* A challenge branch that restarts the timer with each retransmission.
ChallengeRearms(c, message) ==
    IF c.retryCount < maxRetries
    THEN SendRequest([c EXCEPT !.retryCount = @ + 1, !.timersSet = @ + 1,
                               !.deadline = c.now + TimeoutTicks],
                     TRUE, SubArray(message, 5, 9))
    ELSE Close(Reject(c, ErrMaxRetries))

\* A challenge branch that starts over with the modern dialect.
ChallengeResets(c, message) ==
    IF c.retryCount < maxRetries
    THEN SendRequest([c EXCEPT !.retryCount = @ + 1, !.goldSource = FALSE,
                               !.orangeBox = TRUE],
                     TRUE, SubArray(message, 5, 9))
    ELSE Close(Reject(c, ErrMaxRetries))

\* Lines 554-562: the challenge branch.
Challenge(c, message) ==
    IF c.retryCount < maxRetries
    THEN SendRequest([c EXCEPT !.retryCount = @ + 1], TRUE, SubArray(message, 5, 9))
    ELSE Close(Reject(c, ErrMaxRetries))

\* Lines 551-671: the classification of a datagram by its header.
Classify(c, message) ==
    IF ~CanRead(message, 0, 4) THEN Throw(c, ReadError(message, 4))
    ELSE LET header == ReadInt32LE(message, 0) IN
         IF SubArray(message, 4, 5) = <<A2S_CHALLENGE_RESPONSE_HEADER>>
         THEN Challenge(c, message)
         ELSE IF header = A2S_SINGLE_PACKET_HEADER
         THEN Dispatch(c, message, [NoDispatch EXCEPT !.wire = message, !.payload = message])
         ELSE IF header = A2S_MULTI_PACKET_HEADER THEN MultiPacket(c, message)
         ELSE Close(Reject(c, ErrInvalidHeader))

\* onMessage (lines 544-672), called by the socket or by reload.
OnMessage(c, message) ==
    Classify([Log(c, "Recv") EXCEPT !.onMessageCalls = @ + 1], message)

\* A timer callback that forgets the socket.
OnTimeoutNoClose(c) == Reject(c, ErrTimeout)

\* The timer callback (lines 489-492).
OnTimeout(c) == Close(Reject(c, ErrTimeout))

\* The socket's 'error' listener (lines 676-679).
OnError(c, err) == Close(Reject(c, err))

\* get(header, resolve, reject) of a Source constructed with debug, up to its
\* return: the timer is armed, the socket created and the first request sent.
StartCall(header, debug) ==
    SendRequest(
        [header |-> header, debug |-> debug, trace |-> << >>,
         timersSet |-> 1, deadline |-> TimeoutTicks, now |-> 0, retryCount |-> 0, packets |-> << >>,
         isCompressed |-> FALSE, crc32CheckSum |-> 0, goldSource |-> FALSE,
         orangeBox |-> TRUE, timerArmed |-> TRUE, socketOpen |-> TRUE,
         promise |-> "pending", result |-> NoValue, error |-> NoError,
         sent |-> << >>, thrown |-> NoError, uncaught |-> << >>, log |-> << >>,
         closeCalls |-> 0, settleCalls |-> 0, reloads |-> 0, completions |-> 0,
         fallbacks |-> 0, totalPackets |-> 0, onMessageCalls |-> 0,
         assembledFrom |-> << >>, assembledTotal |-> 0, assembledCompressed |-> FALSE,
         resolvedFrom |-> NoDispatch],
        FALSE, << >>)

\* A call of a Source constructed without debug (the default of line 431).
NewCall(header) == StartCall(header, FALSE)

(***************************************************************************)
(* The datagrams the network may deliver to a call.  Multi-packet frames   *)
(* are FE FF FF FF, the 4-octet response id (high bit: compressed), then   *)
(*   Source:      total, number, [max size (2)], [size (4), crc (4)], body *)
(*   GoldSource:  (number << 4 | total), body                              *)
(* where the max-size field is absent below the Orange Box engine and the  *)
(* size and crc fields belong to packet 0 of a compressed response.        *)
(***************************************************************************)
\* Challenge datagrams with two different tokens, and a truncated one.
ChallengeA == <<255, 255, 255, 255, 65, 17, 34, 51, 68>>
ChallengeB == <<255, 255, 255, 255, 65, 85, 102, 119, 136>>
ChallengeShort == <<255, 255, 255, 255, 65, 17>>

\* Payloads: one player "p" (score 5, duration 1.0); the rule k = v; the rules
\* a = x and a = y (a repeated key); an empty player list; an info answer; a
\* payload with the unknown discriminator 0x58.
PlayersPayload ==
    <<255, 255, 255, 255, 68, 1, 0, 112, 0, 5, 0, 0, 0, 0, 0, 128, 63>>
RulesPayload == <<255, 255, 255, 255, 69, 1, 0, 107, 0, 118, 0>>
RulesTwicePayload ==
    <<255, 255, 255, 255, 69, 2, 0, 97, 0, 120, 0, 97, 0, 121, 0>>
NoPlayersPayload == <<255, 255, 255, 255, 68, 0>>
InfoPayload ==
    <<255, 255, 255, 255, 73, 17, 84, 0, 100, 0, 0, 0, 10, 0, 5, 10, 0, 100,
      108, 0, 1, 49, 0>>
UnknownPayload == <<255, 255, 255, 255, 88>>

\* Single-packet responses are the payload itself.
SingleInfo == InfoPayload
SinglePlayers == PlayersPayload
SingleRules == RulesPayload
SingleUnknown == UnknownPayload

\* A datagram too short for the header.
Runt == <<255, 255>>

\* A header that is none of the markers.
InvalidHeader == <<0, 0, 0, 0, 0>>

\* The same header, followed by the octet 0x41 and four more octets.
InvalidHeaderA == <<0, 0, 0, 0, 65, 17, 34, 51, 68>>

\* Orange Box framing, uncompressed, PlayersPayload in two packets.
Modern0 ==
    <<254, 255, 255, 255, 3, 0, 0, 0, 2, 0, 224, 4>>
    \o SubSeq(PlayersPayload, 1, 9)
Modern1 ==
    <<254, 255, 255, 255, 3, 0, 0, 0, 2, 1, 224, 4>>
    \o SubSeq(PlayersPayload, 10, 17)

\* Framing below the Orange Box engine (no max-size field), uncompressed,
\* RulesPayload in two packets.
PreOrange0 ==
    <<254, 255, 255, 255, 4, 0, 0, 0, 2, 0>> \o SubSeq(RulesPayload, 1, 7)
PreOrange1 ==
    <<254, 255, 255, 255, 4, 0, 0, 0, 2, 1>> \o SubSeq(RulesPayload, 8, 11)

\* GoldSource framing, RulesTwicePayload in three packets.
Gold0 == <<254, 255, 255, 255, 5, 0, 0, 0, 3>> \o SubSeq(RulesTwicePayload, 1, 7)
Gold1 == <<254, 255, 255, 255, 5, 0, 0, 0, 19>> \o SubSeq(RulesTwicePayload, 8, 11)
Gold2 == <<254, 255, 255, 255, 5, 0, 0, 0, 35>> \o SubSeq(RulesTwicePayload, 12, 15)

\* NoPlayersPayload compressed: the bzip2 stream (level 9, one block), and its
\* CRC-32 (0x6BEA75FE) as the four octets of the checksum field.
CompressedStream ==
    <<66, 90, 104, 57, 49, 65, 89, 38, 83, 89, 251, 157, 178, 26, 0, 0, 3, 68, 0,
      192, 0, 4, 0, 0, 0, 160, 0, 48, 204, 12, 122, 129, 119, 23, 114, 69, 56, 80,
      144, 251, 157, 178, 26>>

\* The stream travels in two fragments: its first StreamCut octets and the rest.
StreamCut == 21
GoodChecksum == <<254, 117, 234, 107>>
BadChecksum == <<255, 117, 234, 107>>

\* Orange Box framing, compressed, in two packets; Bz0Bad carries a corrupted
\* checksum.
Bz0 ==
    <<254, 255, 255, 255, 1, 0, 0, 128, 2, 0, 224, 4, 6, 0, 0, 0>>
    \o GoodChecksum \o SubSeq(CompressedStream, 1, StreamCut)
Bz0Bad ==
    <<254, 255, 255, 255, 1, 0, 0, 128, 2, 0, 224, 4, 6, 0, 0, 0>>
    \o BadChecksum \o SubSeq(CompressedStream, 1, StreamCut)
Bz1 ==
    <<254, 255, 255, 255, 1, 0, 0, 128, 2, 1, 224, 4>>
    \o SubSeq(CompressedStream, StreamCut + 1, Len(CompressedStream))

\* Framing below the Orange Box engine, compressed, in two packets.
OldBz0 ==
    <<254, 255, 255, 255, 2, 0, 0, 128, 2, 0, 6, 0, 0, 0>>
    \o GoodChecksum \o SubSeq(CompressedStream, 1, StreamCut)
OldBz1 ==
    <<254, 255, 255, 255, 2, 0, 0, 128, 2, 1>> \o SubSeq(CompressedStream, StreamCut + 1, Len(CompressedStream))

\* Orange Box framing, one packet of one, carrying UnknownPayload.
MultiUnknown ==
    <<254, 255, 255, 255, 6, 0, 0, 0, 1, 0, 224, 4>> \o UnknownPayload

\* Framing below the Orange Box engine, one packet of one, whose payload (a
\* rule list of no rules) does not begin with FF FF FF FF.
Unmarked0 == <<254, 255, 255, 255, 7, 0, 0, 0, 1, 0, 0, 0, 0, 0, 69, 0, 0>>

\* Orange Box framing, one packet of one, carrying RulesPayload, with the
\* response id 0x41.
MultiIdA ==
    <<254, 255, 255, 255, 65, 0, 0, 0, 1, 0, 224, 4>> \o RulesPayload

\* A datagram marked compressed whose octets 9..12 are FF FF FF FF (the
\* GoldSource marker), one packet of one in the GoldSource framing.
GoldBz == <<254, 255, 255, 255, 8, 0, 0, 128, 1, 255, 255, 255, 255, 68, 0>>

Datagrams ==
    {ChallengeA, ChallengeB, ChallengeShort,
     SingleInfo, SinglePlayers, SingleRules, SingleUnknown, InvalidHeader,
     InvalidHeaderA,
     Modern0, Modern1, PreOrange0, PreOrange1, Gold0, Gold1, Gold2,
     Bz0, Bz0Bad, Bz1, OldBz0, OldBz1, MultiUnknown, Unmarked0, MultiIdA,
     GoldBz, Runt}

\* The datagrams of the two-call specification.
PairDatagrams == {ChallengeA, SingleRules, PreOrange0, PreOrange1, Bz0Bad}

(***************************************************************************)
(* The state machine.  calls is the sequence of the calls started so far.  *)
(***************************************************************************)
VARIABLES calls

vars == <<calls>>

\* The most datagrams one call receives.
MaxRecv == 3

\* The most datagrams one call of the two-call specification receives.
MaxRecvPair == 2

MessageEvent(m) == [type |-> "message", data |-> m]
TimeoutEvent == [type |-> "timeout", data |-> << >>]
ErrorEvent == [type |-> "error", data |-> << >>]

\* One event handler run to its end: an exception that leaves the handler is
\* an uncaught exception of the process, and nothing of the call is undone.
\* The timer callback runs when the deadline of the timer has come.
Settled(c1, ev) ==
    [c1 EXCEPT !.uncaught = IF c1.thrown # NoError THEN Append(@, c1.thrown) ELSE @,
               !.thrown = NoError,
               !.log = Append(@, ev)]

Handle(c, ev) ==
    Settled(CASE ev.type = "message" -> OnMessage(c, ev.data)
              [] ev.type = "timeout" -> OnTimeout([c EXCEPT !.now = c.deadline])
              [] ev.type = "error" -> OnError(c, ErrTransport),
            ev)

Init == calls = << >>

\* getInfo / getPlayers / getRules: new Promise(... this.get(header, ...)).
Get(header) ==
    /\ calls = << >>
    /\ calls' = <<NewCall(header)>>

\* The socket's 'message' event: only an open socket receives.
Recv(i, m) ==
    /\ calls[i].socketOpen
    /\ Len(calls[i].log) < MaxRecv
    /\ calls' = [calls EXCEPT ![i] = Handle(@, MessageEvent(m))]

\* The timer fires: only while it is armed.
Timeout(i) ==
    /\ calls[i].timerArmed
    /\ calls' = [calls EXCEPT ![i] = Handle(@, TimeoutEvent)]

\* The 'error' events call c has been delivered.
ErrorEvents(c) == Cardinality({k \in DOMAIN c.log : c.log[k].type = "error"})

\* The socket's 'error' event.  socket.send is called without a callback
\* (line 509), so a send that fails (the lookup of the host, the
\* transmission) is reported by this event, once per send; it is emitted
\* whether or not the socket has been closed in the meantime.
SocketError(i) ==
    /\ ErrorEvents(calls[i]) < Len(calls[i].sent)
    /\ calls' = [calls EXCEPT ![i] = Handle(@, ErrorEvent)]

Next ==
    \/ \E header \in Headers : Get(header)
    \/ \E i \in DOMAIN calls : \E m \in Datagrams : Recv(i, m)
    \/ \E i \in DOMAIN calls : Timeout(i)
    \/ \E i \in DOMAIN calls : SocketError(i)

Spec == Init /\ [][Next]_vars

\* Two calls of one process, started in any order and at any time.
GetPair(header) ==
    /\ Len(calls) < 2
    /\ calls' = Append(calls, NewCall(header))

\* A 'message' listener whose packet map is one object for all calls.
RecvPairShared(i, m) ==
    /\ calls[i].socketOpen
    /\ Len(calls[i].log) < MaxRecvPair
    /\ LET c == Handle(calls[i], MessageEvent(m))
       IN  calls' = [j \in DOMAIN calls |->
                        IF j = i THEN c ELSE [calls[j] EXCEPT !.packets = c.packets]]

RecvPair(i, m) ==
    /\ calls[i].socketOpen
    /\ Len(calls[i].log) < MaxRecvPair
    /\ calls' = [calls EXCEPT ![i] = Handle(@, MessageEvent(m))]

NextPair ==
    \/ \E header \in {A2S_INFO, A2S_RULES} : GetPair(header)
    \/ \E i \in DOMAIN calls : \E m \in PairDatagrams : RecvPair(i, m)
    \/ \E i \in DOMAIN calls : Timeout(i)
    \/ \E i \in DOMAIN calls : SocketError(i)

PairSpec == Init /\ [][NextPair]_vars

(***************************************************************************)
(* Decoder inputs.  A call receives one single-packet response whose       *)
(* payload is a rule list or a player list built from its contents.        *)
(***************************************************************************)
\* The most key/value pairs of a rule list.
MaxPairs == 2

\* The most players of a player list.
MaxPlayers == 2

\* The sequences over S of length at most n.
SeqsUpTo(S, n) == UNION {[1..k -> S] : k \in 0..n}

\* A string on the wire: its octets and the zero terminator.
CString(octets) == octets \o <<0>>

\* The octets of rule names: "a", "bc", "__proto__", the two octets of U+00E9,
\* and FF and FE, which are not UTF-8.  The octets of rule values: "x", "yz"
\* and FF.
RuleNames == {<<97>>, <<98, 99>>, ProtoName, <<195, 169>>, <<255>>, <<254>>}
RuleValues == {<<120>>, <<121, 122>>, <<255>>}

\* A rule list: the pairs on the wire, and the count n the payload declares
\* (the wire may carry more pairs than it declares).
RuleLists ==
    UNION {{[n |-> n, pairs |-> ps] : n \in 0..Len(ps)} :
              ps \in SeqsUpTo(RuleNames \X RuleValues, MaxPairs)}

RECURSIVE PairsOctets(_)
PairsOctets(ps) ==
    IF ps = << >> THEN << >>
    ELSE CString(Head(ps)[1]) \o CString(Head(ps)[2]) \o PairsOctets(Tail(ps))

\* FF FF FF FF, 0x45, the 16-bit count, the pairs.
RulesDatagram(g) ==
    <<255, 255, 255, 255, A2S_RULES_RESPONSE, g.n % 256, g.n \div 256>>
    \o PairsOctets(g.pairs)

\* The octets of player names: "p", "qr", and FF, which is not UTF-8.
PlayerNames == {<<112>>, <<113, 114>>, <<255>>}

\* The base record of player j: index j, the name, score j + 5, duration 1.0.
BaseRecord(j, name) ==
    <<j>> \o CString(name) \o <<j + 5, 0, 0, 0>> \o <<0, 0, 128, 63>>

\* The extension of player j: deaths j + 1, money j + 2.
ShipRecord(j) == <<j + 1, 0, 0, 0, j + 2, 0, 0, 0>>

RECURSIVE BaseRecords(_, _)
BaseRecords(names, j) ==
    IF j > Len(names) THEN << >>
    ELSE BaseRecord(j, names[j]) \o BaseRecords(names, j + 1)

RECURSIVE ShipRecords(_, _)
ShipRecords(n, j) == IF j > n THEN << >> ELSE ShipRecord(j) \o ShipRecords(n, j + 1)

\* A player list: the names, and what follows the base records: nothing, the
\* extensions of all players, or one stray octet.
PlayerLists ==
    {[names |-> ns, tail |-> t] :
        ns \in SeqsUpTo(PlayerNames, MaxPlayers), t \in {"none", "ship", "stray"}}

\* FF FF FF FF, 0x44, the count octet, the base records, the tail.
PlayersDatagram(g) ==
    <<255, 255, 255, 255, A2S_PLAYER_RESPONSE, Len(g.names)>>
    \o BaseRecords(g.names, 1)
    \o (CASE g.tail = "none" -> << >>
           [] g.tail = "ship" -> ShipRecords(Len(g.names), 1)
           [] g.tail = "stray" -> <<7>>)

DecodeDatagrams ==
    {RulesDatagram(g) : g \in RuleLists} \cup {PlayersDatagram(g) : g \in PlayerLists}

\* The first datagram of a call.
RecvDecode(i, m) ==
    /\ calls[i].socketOpen
    /\ calls[i].log = << >>
    /\ calls' = [calls EXCEPT ![i] = Handle(@, MessageEvent(m))]

NextDecode ==
    \/ \E header \in Headers : Get(header)
    \/ \E i \in DOMAIN calls : \E m \in DecodeDatagrams : RecvDecode(i, m)

DecodeSpec == Init /\ [][NextDecode]_vars

(***************************************************************************)
(* Calls of a Source with and without debug.                               *)
(***************************************************************************)
\* The most datagrams a call of the debug specification receives.
MaxRecvDebug == 3

\* Datagrams that reach every trace line of the handlers and decoders.
DebugDatagrams ==
    {ChallengeA, SinglePlayers, SingleRules, SingleUnknown, InvalidHeader,
     PreOrange0, PreOrange1, Gold0, Gold1, Bz0, Bz0Bad, Bz1, OldBz0, OldBz1}

\* new Source(host, port, timeout, debug), then one of the three operations.
GetDebug(header, debug) ==
    /\ calls = << >>
    /\ calls' = <<StartCall(header, debug)>>

RecvDebug(i, m) ==
    /\ calls[i].socketOpen
    /\ Len(calls[i].log) < MaxRecvDebug
    /\ calls' = [calls EXCEPT ![i] = Handle(@, MessageEvent(m))]

NextDebug ==
    \/ \E header \in Headers : \E debug \in BOOLEAN : GetDebug(header, debug)
    \/ \E i \in DOMAIN calls : \E m \in DebugDatagrams : RecvDebug(i, m)
    \/ \E i \in DOMAIN calls : Timeout(i)
    \/ \E i \in DOMAIN calls : SocketError(i)

DebugSpec == Init /\ [][NextDebug]_vars

(***************************************************************************)
(* A call with its clock: time passes between the events while the timer   *)
(* is armed.                                                               *)
(***************************************************************************)
\* The most datagrams a call of the timed specification receives.
MaxRecvTimed == 3

TimedDatagrams ==
    {ChallengeA, SingleRules, SingleUnknown, Modern0, PreOrange0, PreOrange1, Bz0Bad,
     Bz1}

\* One tick of the clock, before the deadline of the armed timer.
Tick(i) ==
    /\ calls[i].timerArmed
    /\ calls[i].now < calls[i].deadline
    /\ calls' = [calls EXCEPT ![i].now = @ + 1]

RecvTimed(i, m) ==
    /\ calls[i].socketOpen
    /\ Len(calls[i].log) < MaxRecvTimed
    /\ calls' = [calls EXCEPT ![i] = Handle(@, MessageEvent(m))]

NextTimed ==
    \/ \E header \in Headers : Get(header)
    \/ \E i \in DOMAIN calls : Tick(i)
    \/ \E i \in DOMAIN calls : \E m \in TimedDatagrams : RecvTimed(i, m)
    \/ \E i \in DOMAIN calls : Timeout(i)
    \/ \E i \in DOMAIN calls : SocketError(i)

TimedSpec == Init /\ [][NextTimed]_vars

(***************************************************************************)
(* Properties.                                                             *)
(***************************************************************************)
Last(seq) == seq[Len(seq)]

\* A challenge datagram of the wire format: FF FF FF FF, 0x41, a 4-octet token.
IsChallengeDatagram(m) ==
    Len(m) >= 9 /\ SubSeq(m, 1, 5) = <<255, 255, 255, 255, 65>>

\* The datagrams a call has received, in order.
Received(c) ==
    LET ks == SortedKeys({k \in DOMAIN c.log : c.log[k].type = "message"})
    IN  [j \in 1..Len(ks) |-> c.log[ks[j]].data]

ChallengesReceived(c) ==
    Cardinality({k \in DOMAIN c.log :
                    c.log[k].type = "message" /\ IsChallengeDatagram(c.log[k].data)})

\* C1: a call never sends more than 3 requests (2 retransmissions), and once
\* it has received its third challenge datagram it has sent exactly the 3
\* requests it had sent before, is rejected with the retry-exhausted error and
\* its socket is closed.
C1_RetryBound ==
    \A i \in DOMAIN calls :
        /\ Len(calls[i].sent) <= 3
        /\ ChallengesReceived(calls[i]) = 3 =>
              /\ Len(calls[i].sent) = 3
              /\ calls[i].promise = "rejected"
              /\ calls[i].error = "Max retries reached while handling challenge"
              /\ ~calls[i].socketOpen
              /\ calls[i].closeCalls >= 1

C1_Witness ==
    \E i \in DOMAIN calls :
        /\ ChallengesReceived(calls[i]) = 3
        /\ Len(calls[i].log) = 3
        /\ calls[i].promise = "rejected"

\* C2: a step in which a call with fewer than 2 retransmissions receives a
\* challenge datagram appends exactly one request: FF FF FF FF, the
\* discriminator of the original request, the ASCII tag for info, and the
\* octets 5..8 of the datagram.
C2_ChallengeRetransmits ==
    [][\A i \in DOMAIN calls :
          (/\ i \in DOMAIN calls'
           /\ Len(calls'[i].log) = Len(calls[i].log) + 1
           /\ Last(calls'[i].log).type = "message"
           /\ IsChallengeDatagram(Last(calls'[i].log).data)
           /\ Len(calls[i].sent) - 1 < 2)
          => calls'[i].sent =
                Append(calls[i].sent,
                       <<255, 255, 255, 255, calls[i].sent[1][5]>>
                       \o (IF calls[i].header = 84 THEN SourceEngineQuery ELSE << >>)
                       \o SubSeq(Last(calls'[i].log).data, 6, 9))]_vars

C2_Witness ==
    \E i \in DOMAIN calls :
        /\ Received(calls[i]) = <<ChallengeA, ChallengeB>>
        /\ calls[i].header = 84
        /\ Len(calls[i].sent) = 3
        /\ calls[i].sent[3] = <<255, 255, 255, 255, 84>> \o SourceEngineQuery
                              \o <<85, 102, 119, 136>>

\* The multi-packet responses among the datagrams: packets in sequence order,
\* and the payload they carry.
Responses ==
    {[frags |-> <<Modern0, Modern1>>, payload |-> PlayersPayload],
     [frags |-> <<PreOrange0, PreOrange1>>, payload |-> RulesPayload],
     [frags |-> <<Gold0, Gold1, Gold2>>, payload |-> RulesTwicePayload],
     [frags |-> <<Bz0, Bz1>>, payload |-> NoPlayersPayload],
     [frags |-> <<OldBz0, OldBz1>>, payload |-> NoPlayersPayload]}

Range(seq) == {seq[k] : k \in DOMAIN seq}

\* a is b in some order (the elements of b are distinct).
IsPermutation(a, b) == Len(a) = Len(b) /\ Range(a) = Range(b)

\* The call has received exactly the packets of response r, in some order, and
\* no other event.
ReceivedExactly(c, r) ==
    /\ \A k \in DOMAIN c.log : c.log[k].type = "message"
    /\ IsPermutation(Received(c), r.frags)

\* C3: a call that has received the packets of a multi-packet response, in
\* whatever order, has resolved with the payload the packets carry in sequence
\* order.
C3_OrderIndependent ==
    \A i \in DOMAIN calls : \A r \in Responses :
        ReceivedExactly(calls[i], r) =>
            /\ calls[i].promise = "resolved"
            /\ calls[i].resolvedFrom.payload = r.payload
            /\ calls[i].result = ParseResponse(r.payload).value

\* C4: a promise resolved from a response assembled as compressed was resolved
\* with the decoding of the decompressed bytes, and the CRC-32 of those
\* decompressed bytes is the checksum the call had retained.
C4_ChecksumGuardsResult ==
    \A i \in DOMAIN calls :
        (calls[i].promise = "resolved" /\ calls[i].resolvedFrom.compressed) =>
            LET z == BunzipDecode(calls[i].resolvedFrom.wire) IN
            /\ z.ok
            /\ calls[i].resolvedFrom.payload = z.data
            /\ calls[i].result = ParseResponse(z.data).value
            /\ Crc32Buf(z.data) = calls[i].resolvedFrom.checksum
            /\ calls[i].resolvedFrom.checksum = calls[i].crc32CheckSum

C4_Witness ==
    \E i \in DOMAIN calls :
        /\ calls[i].promise = "resolved"
        /\ calls[i].resolvedFrom.compressed
        /\ Received(calls[i]) = <<Bz0Bad, Bz1, Bz0>>
        /\ calls[i].uncaught = <<"Checksum mismatch">>

\* C5: a call that found the checksum of the decompressed bytes different from
\* the retained one is rejected with the checksum-mismatch error.
C5_ChecksumMismatchRejects ==
    \A i \in DOMAIN calls :
        "Checksum mismatch" \in Range(calls[i].uncaught) =>
            calls[i].promise = "rejected" /\ calls[i].error = "Checksum mismatch"

\* C6: a call whose final payload had an unknown discriminator is rejected
\* with the unknown-response-type error.
C6_UnknownTypeRejects ==
    \A i \in DOMAIN calls :
        "Unknown response type" \in Range(calls[i].uncaught) =>
            calls[i].promise = "rejected" /\ calls[i].error = "Unknown response type"

\* The failures of the spec's list that a call has detected, however they
\* surfaced.
FailureDetected(c) ==
    \/ c.promise = "rejected"
    \/ Range(c.uncaught) \cap
          {"Unknown response type", "Checksum mismatch", "seek-bzip decode error"} # {}

\* C7: once the outcome of a call is determined (success, failure or timeout)
\* its socket is closed.
C7_SocketClosedOnExit ==
    \A i \in DOMAIN calls :
        (calls[i].promise = "resolved" \/ FailureDetected(calls[i])) =>
            ~calls[i].socketOpen

\* C8: a call whose timer has expired is rejected with 'Request timed out'
\* and its socket is closed (the timer only ever fires on a pending call).
C8_TimeoutRejects ==
    \A i \in DOMAIN calls :
        (calls[i].log # << >> /\ Last(calls[i].log).type = "timeout") =>
            /\ calls[i].promise = "rejected"
            /\ calls[i].error = "Request timed out"
            /\ ~calls[i].socketOpen
            /\ ~calls[i].timerArmed

C8_Witness ==
    \E i \in DOMAIN calls :
        /\ calls[i].log = <<TimeoutEvent>>
        /\ calls[i].promise = "rejected"
        /\ calls[i].error = "Request timed out"

\* The result kind each operation promises.
PromisedKind(header) ==
    CASE header = 84 -> "info" [] header = 85 -> "players" [] header = 86 -> "rules"

\* C9: a resolved call holds the result kind of its operation.
C9_ResultKindMatches ==
    \A i \in DOMAIN calls :
        calls[i].promise = "resolved" =>
            calls[i].result.kind = PromisedKind(calls[i].header)

\* The state a call reaches alone on the events of log.
RECURSIVE Replay(_, _)
Replay(c, log) == IF log = << >> THEN c ELSE Replay(Handle(c, Head(log)), Tail(log))

\* C10: with two calls in flight, the whole state of each call (packet map,
\* dialect flags, checksum, retry counter, timer, socket, outcome) is the
\* state it reaches alone on its own events.
C10_CallsIndependent ==
    \A i \in DOMAIN calls :
        calls[i] = Replay(NewCall(calls[i].header), calls[i].log)

C10_Witness ==
    /\ Len(calls) = 2
    /\ Received(calls[1]) = <<PreOrange1, PreOrange0>>
    /\ calls[1].promise = "resolved"
    /\ Received(calls[2]) = <<ChallengeA, Bz0Bad>>
    /\ calls[2].promise = "pending"
    /\ ~calls[1].orangeBox
    /\ calls[2].orangeBox

\* totalPackets and packetNumber of a multi-packet datagram under the dialect
\* flags of call c.
FramingOf(c, m) ==
    IF c.goldSource
    THEN [totalPackets |-> m[9] % 16, packetNumber |-> (m[9] \div 16) % 16]
    ELSE [totalPackets |-> m[9], packetNumber |-> m[10]]

\* The packet map of c holds a whole response under the flags of c: every
\* packet declares as many packets as the map holds.
HoldsWhole(c) ==
    /\ c.packets # << >>
    /\ \A k \in DOMAIN c.packets :
           FramingOf(c, c.packets[k]).totalPackets = Cardinality(DOMAIN c.packets)

\* The packets of c carry a compressed payload that decompresses, has the
\* retained checksum and a known discriminator.
Verifies(c) ==
    /\ HoldsWhole(c)
    /\ c.isCompressed
    /\ BunzipDecode(AssembledPayload(c)).ok
    /\ Crc32Buf(BunzipDecode(AssembledPayload(c)).data) = c.crc32CheckSum
    /\ ParseResponse(BunzipDecode(AssembledPayload(c)).data).ok

\* C11: a step with a reload sends nothing.  A step in which decompression
\* failed under the Orange Box framing demotes orangeBox and sends nothing,
\* and if the buffered datagrams carry, in the demoted framing, a payload that
\* decompresses and verifies, the call is resolved with the decoding of that
\* payload.
C11_FallbackReprocesses ==
    [][\A i \in DOMAIN calls :
          /\ (i \in DOMAIN calls' /\ calls'[i].reloads > calls[i].reloads)
                => calls'[i].sent = calls[i].sent
          /\ (i \in DOMAIN calls' /\ calls'[i].fallbacks > calls[i].fallbacks)
                => /\ calls[i].orangeBox /\ ~calls'[i].orangeBox
                   /\ calls'[i].sent = calls[i].sent
                   /\ Verifies(calls'[i]) =>
                         /\ calls'[i].promise = "resolved"
                         /\ calls'[i].result =
                              ParseResponse(BunzipDecode(AssembledPayload(calls'[i])).data).value
                         /\ ~calls'[i].socketOpen]_vars

C11_Witness ==
    \E i \in DOMAIN calls :
        /\ Received(calls[i]) = <<OldBz1, OldBz0>>
        /\ calls[i].fallbacks = 1
        /\ ~calls[i].orangeBox
        /\ Len(calls[i].sent) = 1
        /\ calls[i].promise = "resolved"
        /\ calls[i].result = ParseResponse(NoPlayersPayload).value

\* C12: no step of a call resets a demoted dialect flag: goldSource, once
\* true, stays true, and orangeBox, once false, stays false.
C12_DemotionMonotonic ==
    [][\A i \in DOMAIN calls :
          i \in DOMAIN calls' =>
             /\ calls[i].goldSource => calls'[i].goldSource
             /\ ~calls[i].orangeBox => ~calls'[i].orangeBox]_vars

C12_Witness ==
    \E i \in DOMAIN calls :
        /\ Received(calls[i]) = <<PreOrange0, Gold0, ChallengeA>>
        /\ calls[i].goldSource
        /\ ~calls[i].orangeBox

\* C13: the packet map of a call never holds more entries than the total the
\* most recently stored datagram declared.
C13_PacketMapBounded ==
    \A i \in DOMAIN calls :
        calls[i].packets # << >> =>
            Cardinality(DOMAIN calls[i].packets) <= calls[i].totalPackets

\* C14: over a whole call the completion step (the buffered count equals the
\* declared total: assemble, dispatch, resolve and close) is taken at most
\* once, not counting an attempt that ended in the decompression fallback.
C14_CompletesOnce ==
    \A i \in DOMAIN calls :
        calls[i].completions - calls[i].fallbacks <= 1

\* The leading 4 octets of m are neither FF FF FF FF (single packet,
\* challenge) nor FE FF FF FF (multi-packet).
NoMarker(m) ==
    Len(m) >= 4
    /\ SubSeq(m, 1, 4) \notin {<<255, 255, 255, 255>>, <<254, 255, 255, 255>>}

\* C15: a step in which a call receives a datagram with none of the markers
\* rejects the call with the invalid-response error, closes its socket and
\* sends nothing.
C15_InvalidHeaderFails ==
    [][\A i \in DOMAIN calls :
          (/\ i \in DOMAIN calls'
           /\ Len(calls'[i].log) = Len(calls[i].log) + 1
           /\ Last(calls'[i].log).type = "message"
           /\ NoMarker(Last(calls'[i].log).data))
          => /\ calls'[i].promise = "rejected"
             /\ calls'[i].error = "Invalid response header"
             /\ ~calls'[i].socketOpen
             /\ calls'[i].sent = calls[i].sent]_vars

\* C16: a call that has detected a failure processes no later datagram and
\* does not become resolved.
C16_FailuresTerminal ==
    [][\A i \in DOMAIN calls :
          (i \in DOMAIN calls' /\ FailureDetected(calls[i]))
          => /\ ~(/\ Len(calls'[i].log) = Len(calls[i].log) + 1
                  /\ Last(calls'[i].log).type = "message")
             /\ calls'[i].promise # "resolved"]_vars

\* What every request of call c begins with: FF FF FF FF, the discriminator
\* of the operation, and for info the ASCII tag.
RequestPrefix(c) ==
    <<255, 255, 255, 255, c.header>>
    \o (IF c.header = 84 THEN SourceEngineQuery ELSE << >>)

\* The k-th request of call c has the wire format: the first one ends with
\* the placeholder FF FF FF FF (player, rules) or with the tag (info); a later
\* one ends with a 4-octet token that a received challenge carried.
ByteExact(c, k) ==
    LET r == c.sent[k]
        n == Len(RequestPrefix(c))
    IN  IF k = 1
        THEN r = RequestPrefix(c)
                 \o (IF c.header = 84 THEN << >> ELSE <<255, 255, 255, 255>>)
        ELSE /\ Len(r) = n + 4
             /\ SubSeq(r, 1, n) = RequestPrefix(c)
             /\ \E j \in DOMAIN c.log :
                    /\ c.log[j].type = "message"
                    /\ Len(c.log[j].data) >= 9
                    /\ c.log[j].data[5] = 65
                    /\ SubSeq(c.log[j].data, 6, 9) = SubSeq(r, n + 1, n + 4)

\* C17: every request a call has transmitted has the wire format.
C17_RequestsByteExact ==
    \A i \in DOMAIN calls : \A k \in DOMAIN calls[i].sent : ByteExact(calls[i], k)

\* The last position of the name k among the pairs ps; the names and values of
\* ps are octets on the wire, k is a string.
LastIndex(ps, k) ==
    CHOOSE j \in DOMAIN ps :
        /\ ToStringUtf8(ps[j][1]) = k
        /\ \A l \in DOMAIN ps : ToStringUtf8(ps[l][1]) = k => l <= j

\* The mapping the pairs ps stand for: each name read, with the value of its
\* last occurrence.
ExpectedRules(ps) ==
    [k \in {ToStringUtf8(ps[j][1]) : j \in DOMAIN ps} |->
        ToStringUtf8(ps[LastIndex(ps, k)][2])]

\* C18: a call that received a rule list declaring n pairs is resolved with
\* the mapping of the first n pairs on the wire: its keys are the names among
\* them, each with the value of its last occurrence.
C18_RulesDecoded ==
    \A i \in DOMAIN calls : \A g \in RuleLists :
        Received(calls[i]) = <<RulesDatagram(g)>> =>
            /\ calls[i].promise = "resolved"
            /\ calls[i].result.kind = "rules"
            /\ calls[i].result.rules = ExpectedRules(SubSeq(g.pairs, 1, g.n))

\* The records a player list stands for, in wire order.
ExpectedPlayers(g) ==
    [j \in 1..Len(g.names) |->
        [index |-> j, name |-> ToStringUtf8(g.names[j]), score |-> UInt32Of(j + 5),
         duration |-> <<0, 0, 128, 63>>, ship |-> g.tail = "ship",
         deaths |-> UInt32Of(IF g.tail = "ship" THEN j + 1 ELSE 0),
         money |-> UInt32Of(IF g.tail = "ship" THEN j + 2 ELSE 0)]]

\* C19: a call that received a player list with count octet n is resolved
\* with n records in wire order; all of them have the extension fields when
\* octets follow the base records and none has them otherwise.  (A stray
\* octet after the base records of at least one player is too short for an
\* extension: the decoder returns nothing and the call is not resolved.)
C19_PlayersDecoded ==
    \A i \in DOMAIN calls : \A g \in PlayerLists :
        Received(calls[i]) = <<PlayersDatagram(g)>> =>
            IF g.tail = "stray" /\ Len(g.names) > 0
            THEN calls[i].promise # "resolved"
            ELSE /\ calls[i].promise = "resolved"
                 /\ calls[i].result.kind = "players"
                 /\ calls[i].result.players = ExpectedPlayers(g)

C19_Witness ==
    \E i \in DOMAIN calls :
        /\ Received(calls[i]) =
              <<PlayersDatagram([names |-> <<<<112>>, <<113, 114>>>>, tail |-> "ship"])>>
        /\ calls[i].promise = "resolved"
        /\ Len(calls[i].result.players) = 2
        /\ calls[i].result.players[2].name = <<113, 114>>
        /\ calls[i].result.players[2].ship
        /\ calls[i].result.players[2].deaths = UInt32Of(3)

\* A datagram the multi-packet branch handles.
IsMulti(m) ==
    Len(m) >= 10 /\ SubSeq(m, 1, 4) = <<254, 255, 255, 255>> /\ m[5] # 65

\* The multi-packet datagrams call c has received.
MultiReceived(c) ==
    {c.log[k].data : k \in {j \in DOMAIN c.log :
                                c.log[j].type = "message" /\ IsMulti(c.log[j].data)}}

\* A step from c to d demotes a dialect flag.
Demoted(c, d) ==
    (~c.goldSource /\ d.goldSource) \/ (c.orangeBox /\ ~d.orangeBox)

\* C20: after a step that demotes a dialect flag, every multi-packet datagram
\* the call has received, the one of this step included, is in the packet map
\* under the packet number it has in the new framing (as far as no other
\* received datagram has that number).
C20_ReloadKeepsAll ==
    [][\A i \in DOMAIN calls :
          (i \in DOMAIN calls' /\ Demoted(calls[i], calls'[i]))
          => \A m \in MultiReceived(calls'[i]) :
                (\A o \in MultiReceived(calls'[i]) \ {m} :
                    FramingOf(calls'[i], o).packetNumber
                      # FramingOf(calls'[i], m).packetNumber)
                => /\ FramingOf(calls'[i], m).packetNumber \in DOMAIN calls'[i].packets
                   /\ calls'[i].packets[FramingOf(calls'[i], m).packetNumber] = m]_vars

\* The leading 4 octets of m are FF FF FF FF and its fifth octet is 0x41.
HasChallengeMarker(m) ==
    Len(m) >= 5 /\ SubSeq(m, 1, 5) = <<255, 255, 255, 255, 65>>

\* The step from c to d took the challenge branch: it counted a retry, or it
\* rejected with the retry-exhausted error.
ChallengeHandled(c, d) ==
    \/ d.retryCount = c.retryCount + 1
    \/ /\ d.settleCalls = c.settleCalls + 1
       /\ c.promise = "pending"
       /\ d.error = "Max retries reached while handling challenge"

\* C21: a step in which a call receives a datagram takes the challenge branch
\* if and only if the datagram begins with FF FF FF FF 41; a datagram that
\* begins with FE FF FF FF never takes it.
C21_ChallengeClassified ==
    [][\A i \in DOMAIN calls :
          (/\ i \in DOMAIN calls'
           /\ Len(calls'[i].log) = Len(calls[i].log) + 1
           /\ Last(calls'[i].log).type = "message")
          => (ChallengeHandled(calls[i], calls'[i])
                <=> HasChallengeMarker(Last(calls'[i].log).data))]_vars

\* How many exceptions e have left the handlers of call c.
Uncaught(c, e) == Cardinality({k \in DOMAIN c.uncaught : c.uncaught[k] = e})

\* C22: a step in which a decompression error leaves the handler ends with
\* orangeBox demoted.  A step in which decompression failed with orangeBox
\* still active started with orangeBox active, demotes it, reloads and
\* rejects nothing; if the replay did not complete a response again, no
\* decompression error is raised in it.  The fallback is taken at most once.
C22_DecompressionEscalates ==
    [][\A i \in DOMAIN calls :
          i \in DOMAIN calls' =>
             /\ Uncaught(calls'[i], "seek-bzip decode error")
                   > Uncaught(calls[i], "seek-bzip decode error")
                 => ~calls'[i].orangeBox
             /\ calls'[i].fallbacks > calls[i].fallbacks
                 => /\ calls[i].orangeBox /\ ~calls'[i].orangeBox
                    /\ calls'[i].fallbacks = 1
                    /\ calls'[i].reloads > calls[i].reloads
                    /\ calls'[i].promise # "rejected"
                    /\ calls'[i].error = "none"
                    /\ calls'[i].completions = calls[i].completions + 1
                        => Uncaught(calls'[i], "seek-bzip decode error")
                             = Uncaught(calls[i], "seek-bzip decode error")]_vars

C22_Witness ==
    \E i \in DOMAIN calls :
        /\ Received(calls[i]) = <<OldBz1, Bz0>>
        /\ calls[i].fallbacks = 1
        /\ ~calls[i].orangeBox
        /\ calls[i].completions = 2
        /\ calls[i].uncaught = <<"seek-bzip decode error">>
        /\ calls[i].promise = "pending"

\* C23: in one call each dialect flag is demoted at most once and every
\* reload goes with one demotion, so reload runs at most twice; and the
\* handling of one received datagram runs onMessage once for the datagram and,
\* for each reload of the step, at most once per datagram buffered or replayed.
C23_LoopsBounded ==
    [][\A i \in DOMAIN calls :
          i \in DOMAIN calls' =>
             /\ calls'[i].reloads <= 2
             /\ calls'[i].reloads =
                   (IF calls'[i].goldSource THEN 1 ELSE 0)
                   + (IF calls'[i].orangeBox THEN 0 ELSE 1)
             /\ calls'[i].onMessageCalls - calls[i].onMessageCalls
                   <= 1 + (calls'[i].reloads - calls[i].reloads)
                          * (Cardinality(DOMAIN calls[i].packets) + 1)]_vars

C23_Witness ==
    \E i \in DOMAIN calls :
        /\ Received(calls[i]) = <<GoldBz>>
        /\ calls[i].reloads = 2
        /\ calls[i].goldSource /\ ~calls[i].orangeBox
        /\ calls[i].onMessageCalls = 3
        /\ calls[i].uncaught = <<"seek-bzip decode error">>

\* The step from c to d is the receipt of a multi-packet datagram whose
\* packet number, under the flags of c, is already buffered.
DuplicateReceived(c, d) ==
    /\ Len(d.log) = Len(c.log) + 1
    /\ Last(d.log).type = "message"
    /\ IsMulti(Last(d.log).data)
    /\ FramingOf(c, Last(d.log).data).packetNumber \in DOMAIN c.packets

\* The payload the packets of c give under the flags of d.
AssembledAs(c, d) ==
    AssembledPayload([c EXCEPT !.goldSource = d.goldSource, !.orangeBox = d.orangeBox,
                               !.isCompressed = d.isCompressed])

\* C24: a step in which a call receives a multi-packet datagram whose packet
\* number is already buffered leaves the datagram in the packet map under
\* its packet number and the number of entries as it was; if the buffered
\* entry was the same octets, the payload the map assembles to is as it was.
C24_DuplicateStoreIdempotent ==
    [][\A i \in DOMAIN calls :
          (i \in DOMAIN calls' /\ DuplicateReceived(calls[i], calls'[i]))
          => LET m == Last(calls'[i].log).data IN
             /\ FramingOf(calls'[i], m).packetNumber \in DOMAIN calls'[i].packets
             /\ calls'[i].packets[FramingOf(calls'[i], m).packetNumber] = m
             /\ Cardinality(DOMAIN calls'[i].packets)
                   = Cardinality(DOMAIN calls[i].packets)
             /\ calls[i].packets[FramingOf(calls[i], m).packetNumber] = m
                 => AssembledPayload(calls'[i]) = AssembledAs(calls[i], calls'[i])]_vars

\* C25: the whole state of a call of a Source with debug on, its trace
\* aside (requests sent, packet map, dialect flags, checksum, counters,
\* socket, timer and outcome), is the state a call with debug off reaches on
\* the same request kind and the same events.
C25_DebugTransparent ==
    \A i \in DOMAIN calls :
        [calls[i] EXCEPT !.debug = FALSE, !.trace = << >>]
            = Replay(StartCall(calls[i].header, FALSE), calls[i].log)

C25_Witness ==
    \E i \in DOMAIN calls :
        /\ calls[i].debug
        /\ Received(calls[i]) = <<OldBz1, OldBz0>>
        /\ calls[i].promise = "resolved"
        /\ calls[i].trace =
              <<"Send", "Recv", "Recv", "Compression Detected", "Total Packets",
                "Payload", "Below Orange Box Engine Detected", "Reload",
                "Recv", "Compression Detected", "Total Packets", "Recv", "Payload",
                "Payload (Decompressed)", "Player Count">>

\* C26: a call sets one timer, and no step moves its deadline; a pending
\* call has its timer armed, whatever it has received, sent or reloaded; and
\* the timer callback of a pending call runs at the deadline set at the
\* start and rejects the call with 'Request timed out'.
C26_TimerArmedOnce ==
    [][\A i \in DOMAIN calls :
          i \in DOMAIN calls' =>
             /\ calls'[i].timersSet = 1
             /\ calls'[i].deadline = calls[i].deadline
             /\ calls[i].deadline = TimeoutTicks
             /\ calls'[i].promise = "pending" => calls'[i].timerArmed
             /\ (/\ Len(calls'[i].log) = Len(calls[i].log) + 1
                 /\ Last(calls'[i].log).type = "timeout"
                 /\ calls[i].promise = "pending")
                => /\ calls'[i].now = TimeoutTicks
                   /\ calls'[i].promise = "rejected"
                   /\ calls'[i].error = "Request timed out"
                   /\ ~calls'[i].timerArmed]_vars

C26_Witness ==
    \E i \in DOMAIN calls :
        /\ Len(calls[i].log) = 4
        /\ Received(calls[i]) = <<ChallengeA, PreOrange1, Bz0Bad>>
        /\ Last(calls[i].log).type = "timeout"
        /\ Len(calls[i].sent) = 2
        /\ calls[i].reloads = 1
        /\ calls[i].now = TimeoutTicks
        /\ calls[i].error = "Request timed out"

\* C27: over a whole call socket.close() is called at most once and resolve
\* and reject together at most once; no timer callback runs in a call that has
\* already settled.
C27_SettlesOnce ==
    \A i \in DOMAIN calls :
        /\ calls[i].closeCalls <= 1
        /\ calls[i].settleCalls <= 1
        /\ (calls[i].log # << >> /\ Last(calls[i].log).type = "timeout")
              => calls[i].settleCalls = 1 /\ calls[i].error = "Request timed out"

\* C28: whenever a call has completed a reassembly with declared total N,
\* the packet numbers it assembled were exactly 0 .. N-1.
C28_AssemblesAllNumbers ==
    \A i \in DOMAIN calls :
        calls[i].completions > 0 =>
            DOMAIN calls[i].assembledFrom = 0 .. (calls[i].assembledTotal - 1)

\* The response identifier of a multi-packet datagram (its octets 4..7), and
\* its compressed flag (the high bit of the identifier).
ResponseId(m) == SubSeq(m, 5, 8)
CompressedFlag(m) == m[8] >= 128

\* C29: whenever a call has completed a reassembly, the datagrams it
\* assembled all carry one response identifier, and the compressed flag it
\* applied is the flag of that identifier.
C29_OneResponseAssembled ==
    \A i \in DOMAIN calls :
        calls[i].completions > 0 =>
            \A j, k \in DOMAIN calls[i].assembledFrom :
                /\ ResponseId(calls[i].assembledFrom[j])
                     = ResponseId(calls[i].assembledFrom[k])
                /\ CompressedFlag(calls[i].assembledFrom[j])
                     = calls[i].assembledCompressed
====
